---------------------------- MODULE Spec2Model ----------------------------
(***************************************************************************)
(* Model of the wdio-ai-locator-service resolution engine:                 *)
(*   - registerAiLocator / resolveSelector / aiLocator                     *)
(*       (src/src/commands/findLocator.ts)                                 *)
(*   - LocatorEngine.findLocator, verifySelector, isXPath, LocatorCache    *)
(*       (src/src/locator/locatorEngine.ts)                                *)
(*   - AiLocatorProvider.find / processSelector   (src/unnamed/part_003)   *)
(*   - templateInterpolation                      (src/unnamed/part_001)   *)
(*   - xpathUtils                          (src/src/utils/xpathUtils.ts)   *)
(*                                                                         *)
(* Strings are TLA+ strings; TLC evaluates Len, SubSeq and \o on them, so  *)
(* the text functions are computed character by character as the code's    *)
(* regular expressions do.                                                 *)
(*                                                                         *)
(* One action is one turn of the JavaScript event loop for one call: the   *)
(* code that runs between two awaits on browser or backend I/O.            *)
(***************************************************************************)
EXTENDS Integers, Sequences, FiniteSets, TLC

(***************************************************************************)
(* Text primitives                                                         *)
(***************************************************************************)
Ch(s, i) == SubSeq(s, i, i)

StartsWith(s, p) == Len(s) >= Len(p) /\ SubSeq(s, 1, Len(p)) = p

StartsAt(s, i, p) == i + Len(p) - 1 <= Len(s) /\ SubSeq(s, i, i + Len(p) - 1) = p

Includes(s, sub) == \E i \in 1..(Len(s) - Len(sub) + 1) : StartsAt(s, i, sub)

Digits == {"0", "1", "2", "3", "4", "5", "6", "7", "8", "9"}

LowerChars ==
  {"a", "b", "c", "d", "e", "f", "g", "h", "i", "j", "k", "l", "m",
   "n", "o", "p", "q", "r", "s", "t", "u", "v", "w", "x", "y", "z"}

UpperChars ==
  {"A", "B", "C", "D", "E", "F", "G", "H", "I", "J", "K", "L", "M",
   "N", "O", "P", "Q", "R", "S", "T", "U", "V", "W", "X", "Y", "Z"}

\* \w of a JavaScript regular expression
WordChars == LowerChars \cup UpperChars \cup Digits \cup {"_"}

\* \s of a JavaScript regular expression (the ASCII part)
SpaceChars == {" ", "\t", "\n", "\r", "\f"}

\* the backtick: SANY reads a backtick up to the next apostrophe as one quoted
\* piece, so the character is cut out of that pair
Backtick == SubSeq("`'", 1, 1)

QuoteChars == {Backtick, "'", "\""}

HexChars == Digits \cup {"a", "b", "c", "d", "e", "f"}

\* the first index >= i of s whose character is not in set (Len(s)+1 if none)
RECURSIVE SkipWhile(_, _, _)
SkipWhile(s, i, set) ==
  IF i <= Len(s) /\ Ch(s, i) \in set THEN SkipWhile(s, i + 1, set) ELSE i

\* the first index > i - 1 from the right whose character is not in set
RECURSIVE SkipBack(_, _, _)
SkipBack(s, i, set) ==
  IF i >= 1 /\ Ch(s, i) \in set THEN SkipBack(s, i - 1, set) ELSE i

\* String.prototype.trim
Trim(s) ==
  LET a == SkipWhile(s, 1, SpaceChars)
      b == SkipBack(s, Len(s), SpaceChars)
  IN  IF a > b THEN "" ELSE SubSeq(s, a, b)

\* s.replace(/pat/g, rep) for a literal pat: leftmost matches, not overlapping
RECURSIVE ReplaceAllFrom(_, _, _, _)
ReplaceAllFrom(s, i, pat, rep) ==
  IF i > Len(s) THEN ""
  ELSE IF StartsAt(s, i, pat)
       THEN rep \o ReplaceAllFrom(s, i + Len(pat), pat, rep)
       ELSE Ch(s, i) \o ReplaceAllFrom(s, i + 1, pat, rep)

ReplaceAll(s, pat, rep) == ReplaceAllFrom(s, 1, pat, rep)

\* s.split(sep) for a non-empty literal sep
RECURSIVE SplitFrom(_, _, _, _)
SplitFrom(s, i, start, sep) ==
  IF i > Len(s) THEN << SubSeq(s, start, Len(s)) >>
  ELSE IF StartsAt(s, i, sep)
       THEN << SubSeq(s, start, i - 1) >> \o SplitFrom(s, i + Len(sep), i + Len(sep), sep)
       ELSE SplitFrom(s, i + 1, start, sep)

Split(s, sep) == SplitFrom(s, 1, 1, sep)

\* the number of occurrences of the one-character string ch in s
CountChar(s, ch) == Cardinality({i \in 1..Len(s) : Ch(s, i) = ch})

\* s.replace(/^xpath=/, '')
StripXPathPrefix(s) == IF StartsWith(s, "xpath=") THEN SubSeq(s, 7, Len(s)) ELSE s



(***************************************************************************)
(* Template interpolation (src/unnamed/part_001)                           *)
(***************************************************************************)
\* A match of /\{(\w+)\}/ starting at i: the index of its closing brace, or 0.
PlaceholderEnd(s, i) ==
  IF i <= Len(s) /\ Ch(s, i) = "{"
  THEN LET j == SkipWhile(s, i + 1, WordChars)
       IN  IF j > i + 1 /\ j <= Len(s) /\ Ch(s, j) = "}" THEN j ELSE 0
  ELSE 0

hasTemplateVariables(template) ==
  \E i \in 1..Len(template) : PlaceholderEnd(template, i) > 0

\* String(value).replace(/'/g, "\\'").replace(/"/g, '\\"')
EscapeQuotes(value) == ReplaceAll(ReplaceAll(value, "'", "\\'"), "\"", "\\\"")

\* template.replace(/\{(\w+)\}/g, ...): a variable that is not defined keeps
\* its placeholder; escape says whether the value's quotes are escaped.
RECURSIVE InterpolateFrom(_, _, _, _)
InterpolateFrom(s, i, variables, escape) ==
  IF i > Len(s) THEN ""
  ELSE LET j == PlaceholderEnd(s, i)
       IN  IF j = 0
           THEN Ch(s, i) \o InterpolateFrom(s, i + 1, variables, escape)
           ELSE LET name == SubSeq(s, i + 1, j - 1)
                    repl == IF name \in DOMAIN variables
                            THEN IF escape THEN EscapeQuotes(variables[name])
                                 ELSE variables[name]
                            ELSE SubSeq(s, i, j)
                IN  repl \o InterpolateFrom(s, j + 1, variables, escape)

interpolateTemplate(template, variables) ==
  IF DOMAIN variables = {} THEN template
  ELSE InterpolateFrom(template, 1, variables, FALSE)

interpolateLocator(locator, variables) ==
  IF DOMAIN variables = {} THEN locator
  ELSE InterpolateFrom(locator, 1, variables, TRUE)

(***************************************************************************)
(* XPath utilities (src/src/utils/xpathUtils.ts)                           *)
(***************************************************************************)
isValidXPath(xpath) ==
  IF xpath = "" THEN FALSE
  ELSE LET t == Trim(StripXPathPrefix(xpath))
       IN  \/ StartsWith(t, "//")
           \/ (StartsWith(t, "/") /\ Len(t) >= 2 /\ Ch(t, 2) # "/")
           \/ StartsWith(t, "(")

\* s.replace(/\s+/g, ' ')
RECURSIVE CollapseSpacesFrom(_, _)
CollapseSpacesFrom(s, i) ==
  IF i > Len(s) THEN ""
  ELSE IF Ch(s, i) \in SpaceChars
       THEN " " \o CollapseSpacesFrom(s, SkipWhile(s, i, SpaceChars))
       ELSE Ch(s, i) \o CollapseSpacesFrom(s, i + 1)

\* s.replace(/^[`'"]+|[`'"]+$/g, '')
StripQuotes(s) ==
  LET a == SkipWhile(s, 1, QuoteChars)
      b == SkipBack(s, Len(s), QuoteChars)
  IN  IF a > b THEN "" ELSE SubSeq(s, a, b)

normalizeXPath(xpath) ==
  IF xpath = "" THEN xpath
  ELSE LET t == Trim(xpath)
           u == IF StartsWith(t, "xpath=") THEN SubSeq(t, 7, Len(t)) ELSE t
       IN  CollapseSpacesFrom(StripQuotes(u), 1)

\* the operator of (=|!=|<|>|\|) that starts at j, or "" when none does
OperatorAt(s, j) ==
  IF j > Len(s) THEN ""
  ELSE IF Ch(s, j) \in {"=", "<", ">", "|"} THEN Ch(s, j)
  ELSE IF StartsAt(s, j, "!=") THEN "!="
  ELSE ""

\* s.replace(/\s*(=|!=|<|>|\|)\s*/g, '$1')
RECURSIVE TightenOperatorsFrom(_, _)
TightenOperatorsFrom(s, i) ==
  IF i > Len(s) THEN ""
  ELSE LET j  == SkipWhile(s, i, SpaceChars)
           op == OperatorAt(s, j)
       IN  IF op # ""
           THEN op \o TightenOperatorsFrom(s, SkipWhile(s, j + Len(op), SpaceChars))
           ELSE Ch(s, i) \o TightenOperatorsFrom(s, i + 1)

optimizeXPath(xpath) ==
  IF xpath = "" THEN xpath
  ELSE LET a == StripXPathPrefix(xpath)
           b == ReplaceAll(a, "/descendant-or-self::node()/", "//")
           c == ReplaceAll(b, "//*/", "//")
       IN  TightenOperatorsFrom(c, 1)

\* whether s has n or more consecutive characters of set, starting at index
\* i or later and before the first character of stop
RunWithin(s, i, set, n, stop) ==
  LET e == SkipWhile(s, i, {Ch(s, k) : k \in 1..Len(s)} \ stop)
  IN  \E k \in i..(e - n) : \A d \in 0..(n - 1) : Ch(s, k + d) \in set

\* /attr=["'][^"']*SET{n,}/.test(s)
AttrValueHasRun(s, attr, set, n) ==
  \E i \in 1..Len(s) :
     /\ StartsAt(s, i, attr \o "=")
     /\ i + Len(attr) + 1 <= Len(s)
     /\ Ch(s, i + Len(attr) + 1) \in {"\"", "'"}
     /\ RunWithin(s, i + Len(attr) + 2, set, n, {"\"", "'"})

\* /PREFIX\d+\]/.test(s), PREFIX a literal that ends with "["
HasIndexAfter(s, prefix) ==
  \E i \in 1..Len(s) :
     /\ StartsAt(s, i, prefix)
     /\ LET j == SkipWhile(s, i + Len(prefix), Digits)
        IN  j > i + Len(prefix) /\ j <= Len(s) /\ Ch(s, j) = "]"

\* /^\/\/[a-z]+\[/.test(s)
StartsWithElementPredicate(s) ==
  /\ StartsWith(s, "//")
  /\ LET j == SkipWhile(s, 3, LowerChars)
     IN  j > 3 /\ j <= Len(s) /\ Ch(s, j) = "["

\* a score that is returned as it was summed
NoClamp(lo, hi, n) == n

\* Math.max(lo, Math.min(hi, n))
Clamp(lo, hi, n) == IF n < lo THEN lo ELSE IF n > hi THEN hi ELSE n

scoreXPath(xpath) ==
  IF xpath = "" THEN 0
  ELSE LET c == StripXPathPrefix(xpath)
           B(cond, pts) == IF cond THEN pts ELSE 0
           score ==
             50
             + B(Includes(c, "normalize-space"), 15)
             + B(Includes(c, "@data-testid") \/ Includes(c, "@data-test"), 30)
             + B(Includes(c, "@aria-label") \/ Includes(c, "@role"), 25)
             + B(Includes(c, "@id") /\ ~AttrValueHasRun(c, "@id", Digits, 3), 20)
             + B(Includes(c, "@name"), 15)
             + B(Includes(c, "@placeholder"), 10)
             + B(Includes(c, "translate(") /\ Includes(c, "ABCDEFGHIJKLMNOPQRSTUVWXYZ"), 10)
             + B(StartsWithElementPredicate(c), 10)
             + B(Includes(c, "following-sibling") \/ Includes(c, "preceding-sibling"), 5)
             - B(HasIndexAfter(c, "["), 20)
             - B(CountChar(c, "/") > 10, 15)
             - B(HasIndexAfter(c, "/html/body/div["), 25)
             - B(Includes(c, "div/div/div/div"), 15)
             - B(AttrValueHasRun(c, "@id", Digits, 5), 20)
             - B(AttrValueHasRun(c, "@class", HexChars, 8), 15)
             - B(CountChar(c, "[") > 5, 10)
       IN  Clamp(0, 100, score)

\* candidates.filter((xpath) => isValidXPath(xpath))
RECURSIVE FilterValid(_)
FilterValid(candidates) ==
  IF candidates = << >> THEN << >>
  ELSE IF isValidXPath(Head(candidates))
       THEN << Head(candidates) >> \o FilterValid(Tail(candidates))
       ELSE FilterValid(Tail(candidates))

\* a sort that puts a candidate before those of equal score
RECURSIVE InsertBeforeEqual(_, _)
InsertBeforeEqual(sorted, x) ==
  IF sorted = << >> THEN << x >>
  ELSE IF scoreXPath(Head(sorted)) > scoreXPath(x)
       THEN << Head(sorted) >> \o InsertBeforeEqual(Tail(sorted), x)
       ELSE << x >> \o sorted

\* sort((a, b) => b.score - a.score) places x: behind every candidate of a
\* higher or equal score (Array.prototype.sort is stable)
RECURSIVE InsertByScore(_, _)
InsertByScore(sorted, x) ==
  IF sorted = << >> THEN << x >>
  ELSE IF scoreXPath(Head(sorted)) >= scoreXPath(x)
       THEN << Head(sorted) >> \o InsertByScore(Tail(sorted), x)
       ELSE << x >> \o sorted

\* validCandidates.sort((a, b) => b.score - a.score)
RECURSIVE SortByScore(_, _)
SortByScore(seq, sorted) ==
  IF seq = << >> THEN sorted
  ELSE SortByScore(Tail(seq), InsertByScore(sorted, Head(seq)))

\* the first of the valid candidates sorted by score; "" stands for null
selectBestXPath(candidates) ==
  IF Len(candidates) = 0 THEN ""
  ELSE LET validCandidates == FilterValid(candidates)
       IN  IF Len(validCandidates) = 0 THEN ""
           ELSE SortByScore(validCandidates, << >>)[1]

(***************************************************************************)
(* Backend adapter: AiLocatorProvider (src/unnamed/part_003)               *)
(***************************************************************************)
\* AiLocatorProvider.isXPath and LocatorEngine.isXPath: the same text
isXPath(selector) ==
  IF selector = "" THEN FALSE
  ELSE LET trimmed == Trim(selector)
       IN  \/ StartsWith(trimmed, "xpath=")
           \/ StartsWith(trimmed, "//")
           \/ (StartsWith(trimmed, "/") /\ ~StartsWith(trimmed, "/*"))

processSelector(selector) ==
  IF selector = "" \/ Trim(selector) = "" THEN selector
  ELSE IF isXPath(selector)
       THEN IF ~isValidXPath(selector) THEN selector
            ELSE optimizeXPath(normalizeXPath(selector))
       ELSE selector

RECURSIVE MapProcess(_)
MapProcess(seq) ==
  IF seq = << >> THEN << >>
  ELSE << processSelector(Head(seq)) >> \o MapProcess(Tail(seq))

\* a filter that keeps every alternate
FilterNone(seq) == seq

\* .filter(Boolean): the empty string is the only falsy string
RECURSIVE FilterTruthy(_)
FilterTruthy(seq) ==
  IF seq = << >> THEN << >>
  ELSE IF Head(seq) = "" THEN FilterTruthy(Tail(seq))
       ELSE << Head(seq) >> \o FilterTruthy(Tail(seq))

\* the alternates of the result: .map(processSelector).filter(Boolean)
ProcessedAlternates(alternates) == FilterTruthy(MapProcess(alternates))

\* a result that is a pattern when any of its selectors holds a placeholder
AnyIsTemplate(processedSelector, processedAlternates) ==
  \/ hasTemplateVariables(processedSelector)
  \/ \E k \in 1..Len(processedAlternates) : hasTemplateVariables(processedAlternates[k])

\* const isTemplate = hasTemplateVariables(processedSelector)
IsTemplate(processedSelector, processedAlternates) ==
  hasTemplateVariables(processedSelector)

\* The LocatorResult that find() builds from the backend's response.selector.
\* metadata (token usage) is telemetry and is left out.
ProviderFind(response) ==
  LET parts      == Split(response, "|||")
      selector   == Head(parts)
      alternates == Tail(parts)
      processed  == processSelector(selector)
  IN  [best       |-> processed,
       alternates |-> ProcessedAlternates(alternates),
       isTemplate |-> IsTemplate(processed, ProcessedAlternates(alternates))]

(***************************************************************************)
(* Bounds and input pools                                                  *)
(***************************************************************************)
\* aiLocator calls made in one run
MaxCalls == 2

\* times the document changes in one run
MaxPageChanges == 1

\* options?.maxRetries ?? 2
DefaultMaxRetries == 2

Calls == 1..MaxCalls

EmptyMap == [x \in {} |-> ""]

Put(m, k, v) == [x \in DOMAIN m \cup {k} |-> IF x = k THEN v ELSE m[x]]

Remove(m, k) == [x \in DOMAIN m \ {k} |-> m[x]]

\* { ...a, ...b }
Merge(a, b) == [x \in DOMAIN a \cup DOMAIN b |-> IF x \in DOMAIN b THEN b[x] ELSE a[x]]

\* The documents the page can show: the page source and the selectors that
\* match a node of it. The last one is a document whose source is empty.
Documents ==
  << [src |-> "<login/>",  live |-> {"#login", "//b[@id='x']", "//b[@id='o\\'k']"}],
     [src |-> "<button/>", live |-> {"//button", "//b[@id='o\\'k']"}],
     [src |-> "",          live |-> {}] >>

\* What the generative backend may answer (response.selector)
Responses ==
  { "#login|||//button",
    "//b[@id='{u}']",
    "xpath=//a[ @id = 'q' ]|||#login|||//button" }

\* Answers whose primary no document holds: path expressions of which the
\* better-scored comes second, the same as patterns, the same followed by a
\* CSS selector, an empty primary, a pattern that is one placeholder with
\* the same and a path expression as alternates, and a pattern followed by a
\* path expression without placeholder
AttemptResponses ==
  { "#nope|||//button|||//b[@id='x']",
    "//i[@id='{u}']|||//div/b|||//b[@id='{u}']",
    "#nope|||//div/b|||//b[@id='x']|||#login",
    "|||//button|||#login",
    "{u}|||{u}|||//b[@id='{u}']",
    "//i[@id='{u}']|||//button" }

\* find() for each answer of the pools
Found == [r \in Responses \cup AttemptResponses |-> ProviderFind(r)]

\* The options of an aiLocator call: description, options.variables,
\* options.cacheBy, options.alwaysAI, options.autoHeal
CallOption(d, v, s, ai, heal) ==
  [description |-> d, variables |-> v, cacheBy |-> s, alwaysAI |-> ai, autoHeal |-> heal]

Login == CallOption("login", EmptyMap, "smart", FALSE, TRUE)

EditX == CallOption("edit {u}", [u |-> "x"], "template", FALSE, TRUE)

EditOk == CallOption("edit {u}", [u |-> "o'k"], "template", FALSE, TRUE)

EditAlwaysAI == CallOption("edit {u}", [u |-> "x"], "template", TRUE, TRUE)

EditNoHeal == CallOption("edit {u}", [u |-> "x"], "template", FALSE, FALSE)

\* what concurrent callers ask for
CallOptions == {Login, EditX, EditOk, EditAlwaysAI}

\* what a test that makes one call after the other asks for
SeqCallOptions == {Login, EditX, EditNoHeal}

StartUrl == "http://t"

\* What the cache file may hold when the LocatorCache is constructed
StoredFiles ==
  { EmptyMap,
    [k \in {"http://t::edit {u}"} |->
       [best |-> "//b[@id='{u}']", alternates |-> << >>, isTemplate |-> TRUE]] }

\* A cache file this engine did not write: JSON.parse takes any document,
\* here one whose entry has an empty best
ForeignFiles ==
  { [k \in {"http://t::edit {u}"} |->
       [best |-> "", alternates |-> << >>, isTemplate |-> FALSE]] }

(***************************************************************************)
(* State                                                                   *)
(***************************************************************************)
VARIABLES
  page,               \* [doc, ver]: the document shown, and how often it changed
  url,                \* what browser.getUrl() answers
  aiContext,          \* browser.aiContext
  maxRetries,         \* LocatorEngine.maxRetries
  selectorCache,      \* registerAiLocator's in-memory Map key -> selector
  inflightSelectors,  \* registerAiLocator's Map key -> the call owning fetchPromise
  store,              \* LocatorCache.store (and the file it is written to)
  pc,                 \* per call: the await it is suspended at
  opt,                \* per call: aiLocator's options, variables merged
  cacheKey,           \* per call: resolveSelector's cacheKey
  waitOn,             \* per call: the owner of the in-flight promise it awaits
  eng,                \* per call: the locals of engine.findLocator
  result,             \* per call: the selector returned or the error thrown
  backendCalls,       \* per call: generateLocator invocations of its resolution
  accepted,           \* per call: selectors the oracle accepted during the call
  startedAfter,       \* per call: the calls that had completed when it started
  cold,               \* per call: no cache layer held its key when it started
  file,               \* the file at LocatorCache.filePath: [exists, raw]
  cache,              \* a LocatorCache instance on that file: [made, raised, store]
  input,              \* the argument handed to a utility function
  output              \* what the utility function returned for it

\* the state of the resolution engine and of its callers
engineVars ==
  << page, url, aiContext, maxRetries, selectorCache, inflightSelectors, store,
     pc, opt, cacheKey, waitOn, eng, result, backendCalls, accepted,
     startedAfter, cold >>

\* the state of a LocatorCache on its own, and of a utility function called
\* on its own
utilVars == << file, cache, input, output >>

vars == << engineVars, utilVars >>

NoFile == [exists |-> FALSE, raw |-> ""]

NoCache == [made |-> FALSE, raised |-> FALSE, store |-> << >>]

\* no LocatorCache of its own and no utility call under way
UtilIdle ==
  /\ file = NoFile
  /\ cache = NoCache
  /\ input = ""
  /\ output = ""

NoOption == CallOption("", EmptyMap, "smart", FALSE, TRUE)

NoResult == [best |-> "", alternates |-> << >>, isTemplate |-> FALSE]

\* key, contextDomSnippet, attempt, the snapshot given to the provider and
\* the attempt it was first given to, cached / aiRes, the alternates index,
\* the LocatorResult returned and the branch that returned it
NoEngine ==
  [key |-> "", dom |-> "", attempt |-> 0, snap |-> "", snapAt |-> 0,
   cur |-> NoResult, i |-> 0, res |-> NoResult, via |-> "none"]

FetchPcs ==
  {"getPageSource", "engineUrl", "verifyCached", "capture", "backend",
   "verifyPrimary", "verifyBest", "verifyAlt"}

\* The state after registerAiLocator: the document shown, the cache file
\* found and the maxRetries configured are the environment's.
EngineInit(docs, files, retries) ==
  /\ page \in [doc : docs, ver : {0}]
  /\ url = StartUrl
  /\ aiContext = EmptyMap
  /\ maxRetries \in retries
  /\ selectorCache = EmptyMap
  /\ inflightSelectors = EmptyMap
  /\ store \in files
  /\ pc = [c \in Calls |-> "idle"]
  /\ opt = [c \in Calls |-> NoOption]
  /\ cacheKey = [c \in Calls |-> ""]
  /\ waitOn = [c \in Calls |-> 0]
  /\ eng = [c \in Calls |-> NoEngine]
  /\ result = [c \in Calls |-> ""]
  /\ backendCalls = [c \in Calls |-> 0]
  /\ accepted = [c \in Calls |-> {}]
  /\ startedAfter = [c \in Calls |-> {}]
  /\ cold = [c \in Calls |-> FALSE]

InitWith(docs, files, retries) == EngineInit(docs, files, retries) /\ UtilIdle

(***************************************************************************)
(* aiLocator (src/src/commands/findLocator.ts:135-204)                     *)
(***************************************************************************)
resolvedDescription(o) == interpolateTemplate(o.description, o.variables)

hasVars(o) == hasTemplateVariables(o.description)

\* a smart strategy that never keys by the template
SmartIsResolved(o) == IF o.cacheBy = "smart" THEN "resolved" ELSE o.cacheBy

finalCacheStrategy(o) ==
  IF o.cacheBy = "smart"
  THEN IF hasVars(o) THEN "template" ELSE "resolved"
  ELSE o.cacheBy

templateForCache(o) ==
  IF finalCacheStrategy(o) = "template" THEN o.description ELSE resolvedDescription(o)

descriptionForAI(o) ==
  IF finalCacheStrategy(o) = "template" THEN o.description ELSE resolvedDescription(o)

requestTemplate(o) == finalCacheStrategy(o) = "template" /\ hasVars(o)

buildKey(u, desc) == u \o "::" \o desc

Completed == {c \in Calls : pc[c] \in {"done", "failed"}}

\* aiLocator up to resolveSelector's await of ctx.getUrl()
AiLocator(c, o) ==
  /\ UNCHANGED utilVars
  /\ pc[c] = "idle"
  /\ \A d \in Calls : d < c => pc[d] # "idle"
  /\ opt' = [opt EXCEPT ![c] = [o EXCEPT !.variables = Merge(aiContext, o.variables)]]
  /\ pc' = [pc EXCEPT ![c] = "getUrl"]
  /\ startedAfter' = [startedAfter EXCEPT ![c] = Completed]
  /\ cold' = [cold EXCEPT ![c] =
                LET k == buildKey(url, templateForCache(opt'[c]))
                IN  k \notin DOMAIN store /\ k \notin DOMAIN selectorCache]
  /\ UNCHANGED << page, url, aiContext, maxRetries, selectorCache, inflightSelectors,
                  store, cacheKey, waitOn, eng, result, backendCalls, accepted >>

(***************************************************************************)
(* resolveSelector (src/src/commands/findLocator.ts:33-133)                *)
(***************************************************************************)
\* the selector handed back as resolved, placeholders left in
NotInterpolated(selector, variables) == selector

\* variables && hasTemplateVariables(selector) ? interpolateLocator(..) : selector
\* (aiLocator always passes a variables object)
Interpolated(selector, variables) ==
  IF hasTemplateVariables(selector) THEN interpolateLocator(selector, variables)
  ELSE selector

\* a lookup of the in-memory layer that never finds an entry
MemoryMiss(o, key) == FALSE

\* const cachedSelector = selectorCache.get(cacheKey); if (cachedSelector)
MemoryHit(o, key) ==
  ~o.alwaysAI /\ key \in DOMAIN selectorCache /\ selectorCache[key] # ""

\* a lookup of the in-flight map that never finds an entry
InflightMiss(key) == FALSE

\* const inflight = inflightSelectors.get(cacheKey); if (inflight)
InflightHit(key) == key \in DOMAIN inflightSelectors

\* The turn after ctx.getUrl() answers: the in-memory layer, the in-flight
\* map, or a new fetchPromise, which runs up to its await of getPageSource().
ResolveSelector(c) ==
  /\ UNCHANGED utilVars
  /\ pc[c] = "getUrl"
  /\ LET key == buildKey(url, templateForCache(opt[c]))
     IN  /\ cacheKey' = [cacheKey EXCEPT ![c] = key]
         /\ IF MemoryHit(opt[c], key)
            THEN /\ pc' = [pc EXCEPT ![c] = "done"]
                 /\ result' = [result EXCEPT ![c] =
                                 Interpolated(selectorCache[key], opt[c].variables)]
                 /\ UNCHANGED << inflightSelectors, waitOn >>
            ELSE IF InflightHit(key)
            THEN /\ pc' = [pc EXCEPT ![c] = "awaitInflight"]
                 /\ waitOn' = [waitOn EXCEPT ![c] = inflightSelectors[key]]
                 /\ UNCHANGED << inflightSelectors, result >>
            ELSE /\ pc' = [pc EXCEPT ![c] = "getPageSource"]
                 /\ inflightSelectors' = Put(inflightSelectors, key, c)
                 /\ UNCHANGED << waitOn, result >>
  /\ UNCHANGED << page, url, aiContext, maxRetries, selectorCache, store, opt, eng,
                  backendCalls, accepted, startedAfter, cold >>

\* a delete placed after the await instead of in the finally block
InflightAfterSuccess(c, ok) ==
  IF ok THEN Remove(inflightSelectors, cacheKey[c]) ELSE inflightSelectors

\* finally { inflightSelectors.delete(cacheKey) }
InflightAfterFetch(c, ok) == Remove(inflightSelectors, cacheKey[c])

\* fetchPromise settles. Its reactions run before any other callback: first
\* the owner's (await fetchPromise, the finally), then those of the calls
\* that await it as inflight. Each substitutes its own variables.
Settle(c, ok, val) ==
  LET woken == {d \in Calls : d = c \/ (pc[d] = "awaitInflight" /\ waitOn[d] = c)}
  IN  /\ inflightSelectors' = InflightAfterFetch(c, ok)
      /\ pc' = [d \in Calls |->
                  IF d \in woken THEN (IF ok THEN "done" ELSE "failed") ELSE pc[d]]
      /\ result' = [d \in Calls |->
                      IF d \notin woken THEN result[d]
                      ELSE IF ok THEN Interpolated(val, opt[d].variables)
                      ELSE val]

\* const dom = await ctx.getPageSource(); then engine.findLocator(...) up to
\* its await of browser.getUrl()
GetPageSource(c) ==
  /\ UNCHANGED utilVars
  /\ pc[c] = "getPageSource"
  /\ eng' = [eng EXCEPT ![c] =
               [NoEngine EXCEPT !.dom = Documents[page.doc].src]]
  /\ pc' = [pc EXCEPT ![c] = "engineUrl"]
  /\ UNCHANGED << page, url, aiContext, maxRetries, selectorCache, inflightSelectors,
                  store, opt, cacheKey, waitOn, result, backendCalls, accepted,
                  startedAfter, cold >>

(***************************************************************************)
(* LocatorEngine.findLocator (src/src/locator/locatorEngine.ts:25-220)     *)
(***************************************************************************)
\* verifySelector: an empty selector is not looked up; a lookup that throws
\* counts as no match
verifySelector(selector) == selector # "" /\ selector \in Documents[page.doc].live

\* What a run that keeps a trace (input = "trace") adds to it in output: the
\* backend's answers as the provider returned them and the selectors the
\* oracle, browser.$(selector) and isExisting(), was asked for, with its
\* answers.
BackendEvent(c, res) ==
  [kind |-> "backend", call |-> c, selector |-> "", ok |-> TRUE, res |-> res]

OracleEvent(c, selector) ==
  [kind |-> "oracle", call |-> c, selector |-> selector,
   ok |-> selector \in Documents[page.doc].live, res |-> NoResult]

\* a verifySelector that looks up whatever it is given
QueriesAlways(c, selector) == << OracleEvent(c, selector) >>

\* verifySelector: if (!selector) return false, before browser.$(selector)
OracleQueries(c, selector) ==
  IF selector = "" THEN << >> ELSE << OracleEvent(c, selector) >>

Record(events) ==
  IF input = "trace"
  THEN /\ output' = output \o events
       /\ UNCHANGED << file, cache, input >>
  ELSE UNCHANGED utilVars

\* a candidate verified as the backend wrote it
ToVerifyRaw(r, s, variables) == s

\* r.isTemplate && variables ? interpolateLocator(s, variables) : s
ToVerify(r, s, variables) ==
  IF r.isTemplate THEN interpolateLocator(s, variables) ELSE s

ExhaustedError(desc) ==
  "Unable to resolve locator for \"" \o desc \o "\" after "
     \o ToString(maxRetries + 1) \o " attempts"

NoSelectorError(desc) ==
  "AI locator service returned no selector for \"" \o desc \o "\""

\* a loop that runs one attempt too many
PastLastAttempt(attempt) == attempt > maxRetries

\* if (attempt === this.maxRetries) break
LastAttempt(attempt) == attempt = maxRetries

\* an engine that ignores autoHeal
AlwaysHeal(o) == TRUE

\* if (autoHeal) continue to the backend, else return the cached result
HealStale(o) == o.autoHeal

\* an in-memory layer that is written in alwaysAI mode too
SelectorCacheSetAlways(c, best) == Put(selectorCache, cacheKey[c], best)

\* if (!alwaysAI) selectorCache.set(cacheKey, res.best)
SelectorCacheSet(c, best) ==
  IF opt[c].alwaysAI THEN selectorCache ELSE Put(selectorCache, cacheKey[c], best)

\* The engine returns res; the fetchPromise's body goes on in the same turn:
\* throws when res.best is empty, fills the in-memory layer unless alwaysAI.
Return(c, res, via, acc) ==
  /\ eng' = [eng EXCEPT ![c] = [NoEngine EXCEPT !.key = eng[c].key, !.res = res, !.via = via]]
  /\ accepted' = [accepted EXCEPT ![c] = @ \cup acc]
  /\ IF res.best = ""
     THEN /\ Settle(c, FALSE, NoSelectorError(descriptionForAI(opt[c])))
          /\ UNCHANGED selectorCache
     ELSE /\ Settle(c, TRUE, res.best)
          /\ selectorCache' = SelectorCacheSet(c, res.best)

\* The top of the for loop for attempt n: reuses contextDomSnippet when it is
\* truthy and calls the provider, else awaits browser.execute for a snapshot.
StartAttempt(c, e, n) ==
  /\ eng' = [eng EXCEPT ![c] =
               [e EXCEPT !.attempt = n, !.i = 0, !.cur = NoResult,
                         !.snap = IF e.dom # "" THEN e.dom ELSE ""]]
  /\ pc' = [pc EXCEPT ![c] = IF eng[c].dom # "" THEN "backend" ELSE "capture"]
  /\ UNCHANGED << inflightSelectors, result, selectorCache, accepted >>

\* The attempt found nothing: throw after the last one, else loop
EndAttempt(c) ==
  IF LastAttempt(eng[c].attempt)
  THEN /\ eng' = [eng EXCEPT ![c] = [NoEngine EXCEPT !.key = eng[c].key, !.via = "exhausted"]]
       /\ Settle(c, FALSE, ExhaustedError(descriptionForAI(opt[c])))
       /\ UNCHANGED << selectorCache, accepted >>
  ELSE StartAttempt(c, eng[c], eng[c].attempt + 1)

\* The turn after the engine's browser.getUrl(): the cache check
EngineUrl(c) ==
  /\ UNCHANGED utilVars
  /\ pc[c] = "engineUrl"
  /\ LET key == buildKey(url, descriptionForAI(opt[c]))
     IN  IF ~opt[c].alwaysAI /\ key \in DOMAIN store
         THEN /\ eng' = [eng EXCEPT ![c] = [@ EXCEPT !.key = key, !.cur = store[key]]]
              /\ pc' = [pc EXCEPT ![c] = "verifyCached"]
              /\ UNCHANGED << inflightSelectors, result, selectorCache, accepted >>
         ELSE StartAttempt(c, [eng[c] EXCEPT !.key = key], 0)
  /\ UNCHANGED << page, url, aiContext, maxRetries, store, opt, cacheKey, waitOn,
                  backendCalls, startedAfter, cold >>

\* await this.verifySelector(browser, selectorToVerify) for the cached result
\* a hit that hands back the entry with its selector already substituted
ReturnSubstituted(c, cached, sel) ==
  Return(c, [cached EXCEPT !.best = sel], "cache", {sel})

\* if (okCached) return cached
ReturnCached(c, cached, sel) == Return(c, cached, "cache", {sel})

\* const okCached = await this.verifySelector(cachedSelector) and its branches
VerifyCached(c) ==
  /\ pc[c] = "verifyCached"
  /\ Record(OracleQueries(c, ToVerify(eng[c].cur, eng[c].cur.best, opt[c].variables)))
  /\ LET cached == eng[c].cur
         sel    == ToVerify(cached, cached.best, opt[c].variables)
     IN  IF verifySelector(sel) THEN ReturnCached(c, cached, sel)
         ELSE IF HealStale(opt[c]) THEN StartAttempt(c, eng[c], 0)
         ELSE Return(c, cached, "stale", {})
  /\ UNCHANGED << page, url, aiContext, maxRetries, store, opt, cacheKey, waitOn,
                  backendCalls, startedAfter, cold >>

\* await browser.execute(() => document.documentElement.outerHTML)
Capture(c) ==
  /\ UNCHANGED utilVars
  /\ pc[c] = "capture"
  /\ eng' = [eng EXCEPT ![c] =
               [@ EXCEPT !.snap = Documents[page.doc].src, !.snapAt = eng[c].attempt]]
  /\ pc' = [pc EXCEPT ![c] = "backend"]
  /\ UNCHANGED << page, url, aiContext, maxRetries, selectorCache, inflightSelectors,
                  store, opt, cacheKey, waitOn, result, backendCalls, accepted,
                  startedAfter, cold >>

\* await this.aiProvider.find(dom, desc, url, requestTemplate): the backend
\* answers r
Backend(c, r) ==
  /\ pc[c] = "backend"
  /\ Record(<< BackendEvent(c, Found[r]) >>)
  /\ eng' = [eng EXCEPT ![c] = [@ EXCEPT !.cur = Found[r]]]
  /\ backendCalls' = [backendCalls EXCEPT ![c] = @ + 1]
  /\ pc' = [pc EXCEPT ![c] = "verifyPrimary"]
  /\ UNCHANGED << page, url, aiContext, maxRetries, selectorCache, inflightSelectors,
                  store, opt, cacheKey, waitOn, result, accepted, startedAfter, cold >>

\* a set that leaves the map and the file as they are
CacheKeep(key, value) == store

\* a set that writes the new entry alone
CacheSetAlone(key, value) == Put(EmptyMap, key, value)

\* this.cache.set(key, value): the map and the file
CacheSet(key, value) == Put(store, key, value)

\* aiRes.best && (await this.verifySelector(browser, selectorToVerify))
VerifyPrimary(c) ==
  /\ pc[c] = "verifyPrimary"
  /\ Record(IF eng[c].cur.best = "" THEN << >>
            ELSE OracleQueries(c, ToVerify(eng[c].cur, eng[c].cur.best, opt[c].variables)))
  /\ LET aiRes == eng[c].cur
         sel   == ToVerify(aiRes, aiRes.best, opt[c].variables)
     IN  IF aiRes.best # "" /\ verifySelector(sel)
         THEN /\ store' = CacheSet(eng[c].key, aiRes)
              /\ Return(c, aiRes, "primary", {sel})
         ELSE /\ UNCHANGED store
              /\ IF Len(aiRes.alternates) = 0 THEN EndAttempt(c)
                 ELSE /\ eng' = [eng EXCEPT ![c] = [@ EXCEPT !.i = 1]]
                      /\ pc' = [pc EXCEPT ![c] =
                                  IF /\ \A k \in 1..Len(aiRes.alternates) :
                                          isXPath(aiRes.alternates[k])
                                     /\ selectBestXPath(aiRes.alternates) # ""
                                  THEN "verifyBest" ELSE "verifyAlt"]
                      /\ UNCHANGED << inflightSelectors, result, selectorCache, accepted >>
  /\ UNCHANGED << page, url, aiContext, maxRetries, opt, cacheKey, waitOn,
                  backendCalls, startedAfter, cold >>

\* a filter that keeps the whole list
Kept(seq, x) == seq

\* aiRes.alternates.filter((a) => a !== bestXPath)
RECURSIVE Without(_, _)
Without(seq, x) ==
  IF seq = << >> THEN << >>
  ELSE IF Head(seq) = x THEN Without(Tail(seq), x)
       ELSE << Head(seq) >> \o Without(Tail(seq), x)

\* await this.verifySelector(browser, bestXPathToVerify)
VerifyBest(c) ==
  /\ pc[c] = "verifyBest"
  /\ Record(OracleQueries(c, ToVerify(eng[c].cur, selectBestXPath(eng[c].cur.alternates),
                                       opt[c].variables)))
  /\ LET aiRes     == eng[c].cur
         bestXPath == selectBestXPath(aiRes.alternates)
         sel       == ToVerify(aiRes, bestXPath, opt[c].variables)
         res       == [best |-> bestXPath,
                       alternates |-> Without(aiRes.alternates, bestXPath),
                       isTemplate |-> aiRes.isTemplate]
     IN  IF verifySelector(sel)
         THEN /\ store' = CacheSet(eng[c].key, res)
              /\ Return(c, res, "ranked", {sel})
         ELSE /\ pc' = [pc EXCEPT ![c] = "verifyAlt"]
              /\ UNCHANGED << store, eng, inflightSelectors, result, selectorCache,
                              accepted >>
  /\ UNCHANGED << page, url, aiContext, maxRetries, opt, cacheKey, waitOn,
                  backendCalls, startedAfter, cold >>

\* await this.verifySelector(browser, altToVerify) for alternates[i]
VerifyAlt(c) ==
  /\ pc[c] = "verifyAlt"
  /\ Record(OracleQueries(c, ToVerify(eng[c].cur, eng[c].cur.alternates[eng[c].i],
                                       opt[c].variables)))
  /\ LET aiRes == eng[c].cur
         alt   == aiRes.alternates[eng[c].i]
         sel   == ToVerify(aiRes, alt, opt[c].variables)
         res   == [best |-> alt, alternates |-> aiRes.alternates,
                   isTemplate |-> aiRes.isTemplate]
     IN  IF verifySelector(sel)
         THEN /\ store' = CacheSet(eng[c].key, res)
              /\ Return(c, res, "alternate", {sel})
         ELSE /\ UNCHANGED store
              /\ IF eng[c].i < Len(aiRes.alternates)
                 THEN /\ eng' = [eng EXCEPT ![c] = [@ EXCEPT !.i = @ + 1]]
                      /\ UNCHANGED << pc, inflightSelectors, result, selectorCache,
                                      accepted >>
                 ELSE EndAttempt(c)
  /\ UNCHANGED << page, url, aiContext, maxRetries, opt, cacheKey, waitOn,
                  backendCalls, startedAfter, cold >>

(***************************************************************************)
(* The environment: the document changes                                   *)
(***************************************************************************)
PageChange(d) ==
  /\ UNCHANGED utilVars
  /\ page.ver < MaxPageChanges
  /\ d # page.doc
  /\ page' = [doc |-> d, ver |-> page.ver + 1]
  /\ UNCHANGED << url, aiContext, maxRetries, selectorCache, inflightSelectors, store,
                  pc, opt, cacheKey, waitOn, eng, result, backendCalls, accepted,
                  startedAfter, cold >>

(***************************************************************************)
(* Concurrent callers on a document that stays as it is                    *)
(***************************************************************************)
Init == InitWith(1..Len(Documents), StoredFiles, {0})

Next ==
  \/ \E c \in Calls, o \in CallOptions : AiLocator(c, o)
  \/ \E c \in Calls : ResolveSelector(c)
  \/ \E c \in Calls : GetPageSource(c)
  \/ \E c \in Calls : EngineUrl(c)
  \/ \E c \in Calls : VerifyCached(c)
  \/ \E c \in Calls : Capture(c)
  \/ \E c \in Calls, r \in Responses : Backend(c, r)
  \/ \E c \in Calls : VerifyPrimary(c)
  \/ \E c \in Calls : VerifyBest(c)
  \/ \E c \in Calls : VerifyAlt(c)

Spec == Init /\ [][Next]_vars

(***************************************************************************)
(* One caller after the other on a document that changes                   *)
(***************************************************************************)
InitSeq == InitWith(1..Len(Documents), StoredFiles, 0..DefaultMaxRetries)

\* a test that awaits each aiLocator call before it makes the next
SeqAiLocator(c, o) ==
  /\ \A d \in Calls : pc[d] \in {"idle", "done", "failed"}
  /\ AiLocator(c, o)

NextSeq ==
  \/ \E c \in Calls, o \in SeqCallOptions : SeqAiLocator(c, o)
  \/ \E c \in Calls : ResolveSelector(c)
  \/ \E c \in Calls : GetPageSource(c)
  \/ \E c \in Calls : EngineUrl(c)
  \/ \E c \in Calls : VerifyCached(c)
  \/ \E c \in Calls : Capture(c)
  \/ \E c \in Calls, r \in Responses : Backend(c, r)
  \/ \E c \in Calls : VerifyPrimary(c)
  \/ \E c \in Calls : VerifyBest(c)
  \/ \E c \in Calls : VerifyAlt(c)
  \/ \E d \in 1..Len(Documents) : PageChange(d)

SpecSeq == InitSeq /\ [][NextSeq]_vars

(***************************************************************************)
(* One caller after the other, on a cache file of foreign origin           *)
(***************************************************************************)
InitForeign == InitWith(1..Len(Documents), ForeignFiles, 0..DefaultMaxRetries)

SpecForeign == InitForeign /\ [][NextSeq]_vars

(***************************************************************************)
(* JSON text of the cache file: JSON.stringify(store, null, 2), JSON.parse *)
(***************************************************************************)
\* the character of s at i, "" past its end
At(s, i) == IF i >= 1 /\ i <= Len(s) THEN Ch(s, i) ELSE ""

RECURSIVE Spaces(_)
Spaces(n) == IF n = 0 THEN "" ELSE " " \o Spaces(n - 1)

\* JSON.stringify's escapes inside a string
RECURSIVE JsonEscapeFrom(_, _)
JsonEscapeFrom(s, i) ==
  IF i > Len(s) THEN ""
  ELSE (IF Ch(s, i) = "\"" THEN "\\\""
        ELSE IF Ch(s, i) = "\\" THEN "\\\\"
        ELSE IF Ch(s, i) = "\n" THEN "\\n"
        ELSE IF Ch(s, i) = "\t" THEN "\\t"
        ELSE IF Ch(s, i) = "\r" THEN "\\r"
        ELSE Ch(s, i)) \o JsonEscapeFrom(s, i + 1)

JsonString(s) == "\"" \o JsonEscapeFrom(s, 1) \o "\""

\* the members or elements of a block, one on a line, indented by ind
RECURSIVE JsonItems(_, _, _)
JsonItems(items, i, ind) ==
  IF i > Len(items) THEN ""
  ELSE Spaces(ind) \o items[i] \o (IF i < Len(items) THEN ",\n" ELSE "\n")
         \o JsonItems(items, i + 1, ind)

\* an object or an array at indentation ind: {} and [] when it is empty
JsonBlock(open, close, items, ind) ==
  IF items = << >> THEN open \o close
  ELSE open \o "\n" \o JsonItems(items, 1, ind + 2) \o Spaces(ind) \o close

\* a LocatorResult at indentation ind
JsonResult(r, ind) ==
  JsonBlock("{", "}",
    << "\"best\": " \o JsonString(r.best),
       "\"alternates\": " \o
          JsonBlock("[", "]",
                    [i \in 1..Len(r.alternates) |-> JsonString(r.alternates[i])],
                    ind + 2),
       "\"isTemplate\": " \o (IF r.isTemplate THEN "true" ELSE "false") >>,
    ind)

\* JSON.stringify(this.store, null, 2): the keys in insertion order
JsonStringify(st) ==
  JsonBlock("{", "}",
    [i \in 1..Len(st) |-> JsonString(st[i].key) \o ": " \o JsonResult(st[i].value, 2)],
    0)

JsonWs == {" ", "\n", "\t", "\r"}

Ws(s, i) == SkipWhile(s, i, JsonWs)

ParseFail == [ok |-> FALSE, at |-> 0]

\* the rest of a string whose opening quote was read; \uXXXX, \b and \f,
\* which JsonStringify never writes for the pools below, are not read
RECURSIVE ParseStringFrom(_, _, _)
ParseStringFrom(s, i, acc) ==
  IF i > Len(s) THEN ParseFail
  ELSE IF Ch(s, i) = "\"" THEN [ok |-> TRUE, val |-> acc, at |-> i + 1]
  ELSE IF Ch(s, i) = "\\"
       THEN IF At(s, i + 1) \in {"\"", "\\", "/"}
            THEN ParseStringFrom(s, i + 2, acc \o At(s, i + 1))
            ELSE IF At(s, i + 1) = "n" THEN ParseStringFrom(s, i + 2, acc \o "\n")
            ELSE IF At(s, i + 1) = "t" THEN ParseStringFrom(s, i + 2, acc \o "\t")
            ELSE IF At(s, i + 1) = "r" THEN ParseStringFrom(s, i + 2, acc \o "\r")
            ELSE ParseFail
  ELSE IF Ch(s, i) \in {"\n", "\t", "\r"} THEN ParseFail
  ELSE ParseStringFrom(s, i + 1, acc \o Ch(s, i))

ParseString(s, i) ==
  IF At(s, i) = "\"" THEN ParseStringFrom(s, i + 1, "") ELSE ParseFail

\* the element of a set of one: in Only({e : x \in {v}}) the value v is
\* computed once however often e uses x
Only(S) == CHOOSE y \in S : TRUE

\* the elements of an array of strings after its first one begins at i
RECURSIVE ParseElements(_, _, _)
ParseElements(s, i, acc) ==
  Only({(IF ~r.ok THEN ParseFail
         ELSE Only({(IF At(s, k) = ","
                     THEN ParseElements(s, Ws(s, k + 1), Append(acc, r.val))
                     ELSE IF At(s, k) = "]"
                     THEN [ok |-> TRUE, val |-> Append(acc, r.val), at |-> k + 1]
                     ELSE ParseFail) : k \in {Ws(s, r.at)}}))
          : r \in {ParseString(s, i)}})

ParseArray(s, i) ==
  IF At(s, i) # "[" THEN ParseFail
  ELSE Only({(IF At(s, j) = "]" THEN [ok |-> TRUE, val |-> << >>, at |-> j + 1]
              ELSE ParseElements(s, j, << >>)) : j \in {Ws(s, i + 1)}})

ParseBoolean(s, i) ==
  IF StartsAt(s, i, "true") THEN [ok |-> TRUE, val |-> TRUE, at |-> i + 4]
  ELSE IF StartsAt(s, i, "false") THEN [ok |-> TRUE, val |-> FALSE, at |-> i + 5]
  ELSE ParseFail

\* the value of the member called name of a LocatorResult
ParseField(s, i, name, acc) ==
  IF name = "best"
  THEN Only({(IF r.ok
              THEN [ok |-> TRUE, val |-> [acc EXCEPT !.best = r.val], at |-> r.at]
              ELSE ParseFail) : r \in {ParseString(s, i)}})
  ELSE IF name = "alternates"
  THEN Only({(IF r.ok
              THEN [ok |-> TRUE, val |-> [acc EXCEPT !.alternates = r.val], at |-> r.at]
              ELSE ParseFail) : r \in {ParseArray(s, i)}})
  ELSE IF name = "isTemplate"
  THEN Only({(IF r.ok
              THEN [ok |-> TRUE, val |-> [acc EXCEPT !.isTemplate = r.val], at |-> r.at]
              ELSE ParseFail) : r \in {ParseBoolean(s, i)}})
  ELSE ParseFail

\* the value of the member named n and the members behind it
RECURSIVE ParseFields(_, _, _)
ParseMember(s, n, acc) ==
  IF ~n.ok \/ At(s, Ws(s, n.at)) # ":" THEN ParseFail
  ELSE Only({(IF ~v.ok THEN ParseFail
              ELSE Only({(IF At(s, k) = "," THEN ParseFields(s, Ws(s, k + 1), v.val)
                          ELSE IF At(s, k) = "}"
                          THEN [ok |-> TRUE, val |-> v.val, at |-> k + 1]
                          ELSE ParseFail) : k \in {Ws(s, v.at)}}))
               : v \in {ParseField(s, Ws(s, Ws(s, n.at) + 1), n.val, acc)}})

\* the members of a LocatorResult after its first one begins at i
ParseFields(s, i, acc) ==
  Only({ParseMember(s, n, acc) : n \in {ParseString(s, i)}})

ParseResult(s, i) ==
  IF At(s, i) # "{" THEN ParseFail
  ELSE Only({(IF At(s, j) = "}"
              THEN [ok |-> TRUE,
                    val |-> [best |-> "", alternates |-> << >>, isTemplate |-> FALSE],
                    at |-> j + 1]
              ELSE ParseFields(s, j, [best |-> "", alternates |-> << >>,
                                      isTemplate |-> FALSE])) : j \in {Ws(s, i + 1)}})

\* this.store[key]: undefined is << >>, a value v is << v >>
StoreGet(st, key) ==
  LET hits == {i \in 1..Len(st) : st[i].key = key}
  IN  IF hits = {} THEN << >> ELSE << st[CHOOSE i \in hits : TRUE].value >>

\* this.store[key] = value: a new key goes last, an old one keeps its place
StorePut(st, key, value) ==
  IF \E i \in 1..Len(st) : st[i].key = key
  THEN [i \in 1..Len(st) |->
          IF st[i].key = key THEN [key |-> key, value |-> value] ELSE st[i]]
  ELSE Append(st, [key |-> key, value |-> value])

\* the value of the entry named n and the entries behind it
RECURSIVE ParseEntries(_, _, _)
ParseEntry(s, n, acc) ==
  IF ~n.ok \/ At(s, Ws(s, n.at)) # ":" THEN ParseFail
  ELSE Only({(IF ~v.ok THEN ParseFail
              ELSE Only({(IF At(s, k) = ","
                          THEN ParseEntries(s, Ws(s, k + 1), st)
                          ELSE IF At(s, k) = "}"
                          THEN [ok |-> TRUE, val |-> st, at |-> k + 1]
                          ELSE ParseFail)
                           : k \in {Ws(s, v.at)}, st \in {StorePut(acc, n.val, v.val)}}))
               : v \in {ParseResult(s, Ws(s, Ws(s, n.at) + 1))}})

\* the entries of the top object after its first one begins at i
ParseEntries(s, i, acc) ==
  Only({ParseEntry(s, n, acc) : n \in {ParseString(s, i)}})

\* the top object of the document: ok needs nothing but white space behind it
ParseDocument(raw, i) ==
  IF At(raw, i) # "{" THEN ParseFail
  ELSE Only({(IF At(raw, j) = "}" THEN [ok |-> TRUE, val |-> << >>, at |-> j + 1]
              ELSE ParseEntries(raw, j, << >>)) : j \in {Ws(raw, i + 1)}})

\* JSON.parse(raw) of a key -> LocatorResult document: ok is FALSE where
\* JSON.parse throws a SyntaxError
JsonParse(raw) ==
  Only({(IF r.ok /\ Ws(raw, r.at) = Len(raw) + 1
         THEN [ok |-> TRUE, val |-> r.val]
         ELSE [ok |-> FALSE, val |-> << >>]) : r \in {ParseDocument(raw, Ws(raw, 1))}})

(***************************************************************************)
(* LocatorCache on its own (src/src/locator/locatorEngine.ts:251-279)      *)
(***************************************************************************)
StoreKeys == {"http://t::login", "http://t::edit {u}"}

StoreValues ==
  { [best |-> "#login", alternates |-> << "//button" >>, isTemplate |-> FALSE],
    [best |-> "//b[@id='{u}']", alternates |-> << >>, isTemplate |-> TRUE],
    [best |-> "//a[@t=\"q\\r\"]", alternates |-> << "//x", "#y" >>, isTemplate |-> FALSE] }

\* a file an earlier LocatorCache wrote
WrittenFile ==
  JsonStringify(<< [key |-> "http://t::login",
                    value |-> [best |-> "#old", alternates |-> << "//old" >>,
                               isTemplate |-> FALSE]] >>)

\* what fs holds at filePath when a LocatorCache is constructed: nothing, a
\* file JSON.parse rejects (empty, cut short, not JSON) or a written file
InitialFiles ==
  { NoFile,
    [exists |-> TRUE, raw |-> ""],
    [exists |-> TRUE, raw |-> "{"],
    [exists |-> TRUE, raw |-> "<html>"],
    [exists |-> TRUE, raw |-> SubSeq(WrittenFile, 1, Len(WrittenFile) - 4)],
    [exists |-> TRUE, raw |-> WrittenFile] }

\* a constructor without its try/catch: the SyntaxError leaves it
LoadUnguarded(parsed) ==
  IF parsed.ok THEN [made |-> TRUE, raised |-> FALSE, store |-> parsed.val]
  ELSE [made |-> FALSE, raised |-> TRUE, store |-> << >>]

\* try { this.store = JSON.parse(raw) } catch (err) { log(...) }
LoadGuarded(parsed) ==
  [made |-> TRUE, raised |-> FALSE, store |-> IF parsed.ok THEN parsed.val ELSE << >>]

\* new LocatorCache(filePath); from and lastSet keep what the instance was
\* constructed on and the last value set through it for each key
Construct ==
  /\ cache' =
       IF file.exists
       THEN Only({LoadGuarded(parsed) @@
                    [from |-> IF parsed.ok THEN "parsed" ELSE "corrupt",
                     lastSet |-> EmptyMap] : parsed \in {JsonParse(file.raw)}})
       ELSE [made |-> TRUE, raised |-> FALSE, store |-> << >>,
             from |-> "absent", lastSet |-> EmptyMap]
  /\ UNCHANGED << file, input, output, engineVars >>

\* set(key, value): fs.writeFileSync either writes the whole document or
\* throws, and the catch block only logs
Set(key, value, written) ==
  /\ cache.made
  /\ cache' = [cache EXCEPT !.store = StorePut(@, key, value),
                            !.lastSet = Put(@, key, value)]
  /\ file' = IF written
             THEN [exists |-> TRUE, raw |-> JsonStringify(StorePut(cache.store, key, value))]
             ELSE file
  /\ UNCHANGED << input, output, engineVars >>

\* get(key) of the instance
Get(key) == StoreGet(cache.store, key)

\* get(key) of a LocatorCache constructed now on the file
GetReloaded(key) ==
  StoreGet(IF file.exists THEN LoadGuarded(JsonParse(file.raw)).store ELSE << >>, key)

InitStore ==
  /\ EngineInit({1}, {EmptyMap}, {0})
  /\ file \in InitialFiles
  /\ cache = NoCache @@ [from |-> "none", lastSet |-> EmptyMap]
  /\ input = ""
  /\ output = ""

NextStore ==
  \/ Construct
  \/ \E key \in StoreKeys, value \in StoreValues, written \in BOOLEAN :
       Set(key, value, written)

SpecStore == InitStore /\ [][NextStore]_vars

(***************************************************************************)
(* The xpathUtils functions called on their own                            *)
(***************************************************************************)
\* how many pieces an input path expression is put together from
MaxSegments == 3

RECURSIVE Concat(_)
Concat(seq) == IF seq = << >> THEN "" ELSE Head(seq) \o Concat(Tail(seq))

\* every text made of 1..n pieces of set
TextsOf(set, n) == {Concat(seq) : seq \in UNION {[1..k -> set] : k \in 1..n}}

\* pieces of path expressions: wildcard steps, any-descendant wrapper steps,
\* named steps, a predicate with spaced operators, the xpath= prefix
OptimizeSegments ==
  {"//*", "/*", "/a", "//div", "/descendant-or-self::node()", "[@id = 'x']", "xpath="}

NoCalls == [calls |-> 0, once |-> "", twice |-> ""]

InitOptimize ==
  /\ EngineInit({1}, {EmptyMap}, {0})
  /\ file = NoFile
  /\ cache = NoCache
  /\ input \in TextsOf(OptimizeSegments, MaxSegments)
  /\ output = NoCalls

\* const optimized = optimizeXPath(input)
Optimize ==
  /\ output.calls = 0
  /\ output' = [output EXCEPT !.calls = 1, !.once = optimizeXPath(input)]
  /\ UNCHANGED << input, file, cache, engineVars >>

\* optimizeXPath(optimized)
OptimizeAgain ==
  /\ output.calls = 1
  /\ output' = [output EXCEPT !.calls = 2, !.twice = optimizeXPath(output.once)]
  /\ UNCHANGED << input, file, cache, engineVars >>

NextOptimize == Optimize \/ OptimizeAgain

SpecOptimize == InitOptimize /\ [][NextOptimize]_vars

\* how many feature-bearing pieces a scored candidate is put together from
MaxTokens == 4

\* Pieces of a candidate, in the order they are written into it; each shows
\* one of the features scoreXPath looks for.  at says where the piece goes:
\* the start of the path, inside its predicate, or after it.
ScoreTokens ==
  << [name |-> "absolute",    at |-> "start", text |-> "/html/body/div[1]"],
     [name |-> "leading",     at |-> "start", text |-> "//a"],
     [name |-> "normalize",   at |-> "attr",  text |-> "normalize-space(.)='L'"],
     [name |-> "testid",      at |-> "attr",  text |-> "@data-testid='t'"],
     [name |-> "test",        at |-> "attr",  text |-> "@data-test='t'"],
     [name |-> "aria",        at |-> "attr",  text |-> "@aria-label='l'"],
     [name |-> "role",        at |-> "attr",  text |-> "@role='r'"],
     [name |-> "id",          at |-> "attr",  text |-> "@id='main'"],
     [name |-> "generatedId", at |-> "attr",  text |-> "@id='item12345'"],
     [name |-> "name",        at |-> "attr",  text |-> "@name='n'"],
     [name |-> "placeholder", at |-> "attr",  text |-> "@placeholder='p'"],
     [name |-> "translate",   at |-> "attr",
      text |-> "translate(., 'ABCDEFGHIJKLMNOPQRSTUVWXYZ', 'abcdefghijklmnopqrstuvwxyz')='l'"],
     [name |-> "hashClass",   at |-> "attr",  text |-> "@class='c a1b2c3d4e5'"],
     [name |-> "positional",  at |-> "path",  text |-> "[2]"],
     [name |-> "following",   at |-> "path",  text |-> "/following-sibling::b"],
     [name |-> "preceding",   at |-> "path",  text |-> "/preceding-sibling::b"],
     [name |-> "deep",        at |-> "path",  text |-> "/a/a/a/a/a/a/a/a/a"],
     [name |-> "divs",        at |-> "path",  text |-> "/div/div/div/div"],
     [name |-> "predicates",  at |-> "path",  text |-> "[c][c][c][c][c][c]"] >>

TokenNames == {ScoreTokens[i].name : i \in 1..Len(ScoreTokens)}

\* the pieces of F that go to place at, joined by sep, in the order of ScoreTokens
RECURSIVE JoinTokens(_, _, _, _)
JoinTokens(F, at, sep, i) ==
  IF i > Len(ScoreTokens) THEN ""
  ELSE LET rest == JoinTokens(F, at, sep, i + 1)
       IN  IF ScoreTokens[i].name \in F /\ ScoreTokens[i].at = at
           THEN ScoreTokens[i].text \o (IF rest = "" THEN "" ELSE sep \o rest)
           ELSE rest

\* the candidate that shows the pieces of F: a start, one predicate with the
\* attribute tests, then the path pieces
Assemble(F) ==
  LET start == JoinTokens(F, "start", "", 1)
      attrs == JoinTokens(F, "attr", " and ", 1)
  IN  (IF start = "" THEN "//*" ELSE start)
        \o (IF attrs # "" THEN "[" \o attrs \o "]"
            ELSE IF "leading" \in F THEN "[b]" ELSE "")
        \o JoinTokens(F, "path", "", 1)

\* sets of pieces one candidate can show: one start, one id attribute
TokenSets ==
  {F \in SUBSET TokenNames :
     /\ Cardinality(F) <= MaxTokens
     /\ ~ {"absolute", "leading"} \subseteq F
     /\ ~ {"id", "generatedId"} \subseteq F}

\* the candidates scored: every assembled one, with and without the xpath=
\* prefix, the two of the unit test, and the empty one
ScoreInputs ==
  {[tokens |-> F, text |-> prefix \o Assemble(F)] :
      F \in TokenSets, prefix \in {"", "xpath="}}
  \cup {[tokens |-> {"leading", "normalize"}, text |-> "//button[normalize-space(.)='Login']"],
        [tokens |-> {"divs"}, text |-> "//div/div/div/div"],
        [tokens |-> {}, text |-> ""]}

NotScored == [calls |-> 0, score |-> 0]

InitScore ==
  /\ EngineInit({1}, {EmptyMap}, {0})
  /\ file = NoFile
  /\ cache = NoCache
  /\ input \in ScoreInputs
  /\ output = NotScored

\* const score = scoreXPath(candidate)
Score ==
  /\ output.calls = 0
  /\ output' = [calls |-> 1, score |-> scoreXPath(input.text)]
  /\ UNCHANGED << input, file, cache, engineVars >>

SpecScore == InitScore /\ [][Score]_vars

\* how many candidates a list handed to selectBestXPath holds
MaxCandidates == 3

\* candidates: valid ones of equal and of different scores, one with the
\* xpath= prefix, one in parentheses, and strings that are no path expression
BestCandidates ==
  {"//a[@id='x']", "//c[@id='y']", "//b[@name='n']", "xpath=//d", "(//e)[1]",
   "/html/body/div[1]", "#login", "a/b", ""}

NotSelected == [calls |-> 0, best |-> ""]

InitSelect ==
  /\ EngineInit({1}, {EmptyMap}, {0})
  /\ file = NoFile
  /\ cache = NoCache
  /\ input \in UNION {[1..n -> BestCandidates] : n \in 0..MaxCandidates}
  /\ output = NotSelected

\* const best = selectBestXPath(candidates)
SelectBest ==
  /\ output.calls = 0
  /\ output' = [calls |-> 1, best |-> selectBestXPath(input)]
  /\ UNCHANGED << input, file, cache, engineVars >>

SpecSelect == InitSelect /\ [][SelectBest]_vars

(***************************************************************************)
(* interpolateTemplate called on its own (src/unnamed/part_001:15-42)      *)
(***************************************************************************)
\* how many pieces a template is put together from
MaxPieces == 3

\* literal text that holds no {name}, two pieces next to each other neither
\* (a lone brace, empty braces, braces around what is no identifier)
LiteralPieces == {"ab ", " {", "} ", "{x-y}"}

PlaceholderNames == {"u", "v"}

Pieces ==
  {[kind |-> "literal", text |-> t] : t \in LiteralPieces}
  \cup {[kind |-> "placeholder", text |-> n] : n \in PlaceholderNames}

\* the text of a piece as it is written in the template
Written(piece) ==
  IF piece.kind = "placeholder" THEN "{" \o piece.text \o "}" ELSE piece.text

RECURSIVE TemplateOf(_)
TemplateOf(pieces) ==
  IF pieces = << >> THEN "" ELSE Written(Head(pieces)) \o TemplateOf(Tail(pieces))

JsValue(t, s, n) == [t |-> t, s |-> s, n |-> n]

\* values of u: strings (an empty one, one that reads like a placeholder),
\* a number, null and undefined; of v: a string and null
ValuesOf(name) ==
  IF name = "u"
  THEN {JsValue("string", "x", 0), JsValue("string", "", 0),
        JsValue("string", "{v}", 0), JsValue("number", "", 3),
        JsValue("null", "", 0), JsValue("undefined", "", 0)}
  ELSE {JsValue("string", "y", 0), JsValue("null", "", 0)}

\* the variables objects: each name missing or with one of its values
VariableMaps ==
  UNION {{m \in [D -> UNION {ValuesOf(n) : n \in D}] :
             \A n \in D : m[n] \in ValuesOf(n)} : D \in SUBSET PlaceholderNames}

\* String(value)
JsString(value) ==
  IF value.t = "number" THEN ToString(value.n)
  ELSE IF value.t = "string" THEN value.s
  ELSE value.t

\* a replacer that stringifies whatever the object holds
AllValues(variables) == [k \in DOMAIN variables |-> JsString(variables[k])]

\* if (value === undefined || value === null) return match;
\* return String(value)
DefinedValues(variables) ==
  [k \in {n \in DOMAIN variables : variables[n].t \notin {"null", "undefined"}} |->
     JsString(variables[k])]

NotSubstituted == [calls |-> 0, text |-> ""]

InitSubstitute ==
  /\ EngineInit({1}, {EmptyMap}, {0})
  /\ file = NoFile
  /\ cache = NoCache
  /\ input \in [pieces : UNION {[1..n -> Pieces] : n \in 0..MaxPieces},
                variables : VariableMaps]
  /\ output = NotSubstituted

\* const result = interpolateTemplate(template, variables)
Substitute ==
  /\ output.calls = 0
  /\ output' = [calls |-> 1,
                text |-> interpolateTemplate(TemplateOf(input.pieces),
                                             DefinedValues(input.variables))]
  /\ UNCHANGED << input, file, cache, engineVars >>

SpecSubstitute == InitSubstitute /\ [][Substitute]_vars

(***************************************************************************)
(* aiLocator's cache strategy on its own (findLocator.ts:152-186)          *)
(***************************************************************************)
CacheStrategies == {"template", "resolved", "smart"}

NotDerived == [calls |-> 0, strategy |-> "", keyText |-> "", forAI |-> "", pattern |-> FALSE]

\* the options of an aiLocator call with this description, variables and cacheBy
OptionsOf(in) ==
  CallOption(TemplateOf(in.pieces), DefinedValues(in.variables), in.cacheBy, FALSE, TRUE)

InitStrategy ==
  /\ EngineInit({1}, {EmptyMap}, {0})
  /\ file = NoFile
  /\ cache = NoCache
  /\ input \in [pieces : UNION {[1..n -> Pieces] : n \in 0..MaxPieces},
                variables : VariableMaps,
                cacheBy : CacheStrategies]
  /\ output = NotDerived

\* aiLocator from resolvedDescription to the arguments of resolveSelector
DeriveStrategy ==
  /\ output.calls = 0
  /\ output' = [calls |-> 1,
                strategy |-> finalCacheStrategy(OptionsOf(input)),
                keyText |-> templateForCache(OptionsOf(input)),
                forAI |-> descriptionForAI(OptionsOf(input)),
                pattern |-> requestTemplate(OptionsOf(input))]
  /\ UNCHANGED << input, file, cache, engineVars >>

SpecStrategy == InitStrategy /\ [][DeriveStrategy]_vars

(***************************************************************************)
(* The context commands on their own (findLocator.ts:206-237)              *)
(***************************************************************************)
MaxScopes == 2

\* what the test passes to the commands: a user name, or a role with another
\* user name
GivenContexts == {[userName |-> "Jane"], [role |-> "admin", userName |-> "John"]}

\* no withAiContext call is under way; outside is the context as the commands
\* called outside every scope left it, lifo says that no scope ended before
\* one that was entered after it
\* the scope that ended last: how, and whether it dropped a context that was
\* no longer the one it had given to fn
NoScopes ==
  [scopes |-> << >>, outside |-> EmptyMap, lifo |-> TRUE, outcome |-> "none",
   dropped |-> FALSE]

DropAt(seq, i) == SubSeq(seq, 1, i - 1) \o SubSeq(seq, i + 1, Len(seq))

InitContext ==
  /\ EngineInit({1}, {EmptyMap}, {0})
  /\ file = NoFile
  /\ cache = NoCache
  /\ input = ""
  /\ output = NoScopes

ContextFrame ==
  << page, url, maxRetries, selectorCache, inflightSelectors, store,
     pc, opt, cacheKey, waitOn, eng, result, backendCalls, accepted,
     startedAfter, cold, file, cache, input >>

\* a command called outside every scope, or by the fn of an open one
Assigned(context) ==
  /\ aiContext' = context
  /\ output' = [output EXCEPT
       !.outside = IF output.scopes = << >> THEN context ELSE @]
  /\ UNCHANGED ContextFrame

\* this.aiContext = { ...this.aiContext, ...context }
SetAiContext == \E context \in GivenContexts : Assigned(Merge(aiContext, context))

MergeAiContext == \E context \in GivenContexts : Assigned(Merge(aiContext, context))

\* this.aiContext = {}
ClearAiContext == Assigned(EmptyMap)

\* what the finally block of withAiContext assigns
ClearedContext(scope) == EmptyMap

RestoredContext(scope) == scope.previousContext

\* withAiContext up to the call of fn: previousContext = { ...this.aiContext },
\* this.aiContext = { ...previousContext, ...context }. entered is the
\* context the call found.
EnterScope ==
  /\ Len(output.scopes) < MaxScopes
  /\ \E context \in GivenContexts :
       /\ aiContext' = Merge(Merge(EmptyMap, aiContext), context)
       /\ output' = [output EXCEPT
            !.scopes = Append(@, [previousContext |-> Merge(EmptyMap, aiContext),
                                  context |-> context,
                                  entered |-> aiContext])]
  /\ UNCHANGED ContextFrame

\* the promise of fn settles, fulfilled or rejected: the finally block runs
\* and withAiContext settles the same way. Scopes entered one inside the other
\* end last one first; scopes started side by side end in any order.
ExitScope ==
  \E i \in 1..Len(output.scopes), outcome \in {"returned", "threw"} :
    /\ aiContext' = RestoredContext(output.scopes[i])
    /\ output' = [output EXCEPT
         !.scopes = DropAt(@, i),
         !.lifo = @ /\ i = Len(output.scopes),
         !.outcome = outcome,
         !.dropped = aiContext # Merge(output.scopes[i].entered,
                                       output.scopes[i].context)]
    /\ UNCHANGED ContextFrame

NextContext ==
  \/ SetAiContext
  \/ MergeAiContext
  \/ ClearAiContext
  \/ EnterScope
  \/ ExitScope

SpecContext == InitContext /\ [][NextContext]_vars

(***************************************************************************)
(* aiLocator with variables given as a function (findLocator.ts:155-158)   *)
(***************************************************************************)
\* the values the test's currentUser takes
UserNames == {"x", "o'k"}

\* options.variables = () => ({ u: currentUser }); input is currentUser
SuppliedVariables == [u |-> input]

InitSupplier ==
  /\ EngineInit(1..Len(Documents), StoredFiles, {0})
  /\ file = NoFile
  /\ cache = NoCache
  /\ input \in UserNames
  /\ output = ""

\* the test assigns currentUser, at any time
ChangeUser ==
  /\ input' \in UserNames \ {input}
  /\ UNCHANGED << file, cache, output, engineVars >>

\* aiLocator('edit {u}', { variables: () => ({ u: currentUser }), autoHeal }):
\* options.variables() is called in the first turn of the call
SupplierAiLocator(c, heal) ==
  AiLocator(c, CallOption("edit {u}", SuppliedVariables, "smart", FALSE, heal))

NextSupplier ==
  \/ ChangeUser
  \/ \E c \in Calls, heal \in BOOLEAN : SupplierAiLocator(c, heal)
  \/ \E c \in Calls : ResolveSelector(c)
  \/ \E c \in Calls : GetPageSource(c)
  \/ \E c \in Calls : EngineUrl(c)
  \/ \E c \in Calls : VerifyCached(c)
  \/ \E c \in Calls : Capture(c)
  \/ \E c \in Calls, r \in Responses : Backend(c, r)
  \/ \E c \in Calls : VerifyPrimary(c)
  \/ \E c \in Calls : VerifyBest(c)
  \/ \E c \in Calls : VerifyAlt(c)

SpecSupplier == InitSupplier /\ [][NextSupplier]_vars

(***************************************************************************)
(* One call, with a trace of the backend's answers and of the oracle's     *)
(* lookups (locatorEngine.ts:118-233)                                      *)
(***************************************************************************)
EditEmpty == CallOption("edit {u}", [u |-> ""], "template", FALSE, TRUE)

AttemptCallOptions == {Login, EditX, EditEmpty}

InitAttempt ==
  /\ EngineInit(1..Len(Documents), StoredFiles \cup ForeignFiles, 0..DefaultMaxRetries)
  /\ file = NoFile
  /\ cache = NoCache
  /\ input = "trace"
  /\ output = << >>

NextAttempt ==
  \/ \E o \in AttemptCallOptions : AiLocator(1, o)
  \/ \E c \in Calls : ResolveSelector(c)
  \/ \E c \in Calls : GetPageSource(c)
  \/ \E c \in Calls : EngineUrl(c)
  \/ \E c \in Calls : VerifyCached(c)
  \/ \E c \in Calls : Capture(c)
  \/ \E c \in Calls, r \in AttemptResponses : Backend(c, r)
  \/ \E c \in Calls : VerifyPrimary(c)
  \/ \E c \in Calls : VerifyBest(c)
  \/ \E c \in Calls : VerifyAlt(c)

SpecAttempt == InitAttempt /\ [][NextAttempt]_vars

(***************************************************************************)
(* AiLocatorProvider.find on its own (src/unnamed/part_003)                *)
(***************************************************************************)
MaxParts == 3

\* what the backend writes between the delimiters: nothing, a blank, CSS, path
\* expressions that normalizeXPath or optimizeXPath rewrite, one with the
\* xpath= prefix and a placeholder, the bare prefix, a lone placeholder, braces
\* around nothing
ProviderSegments ==
  {"", " ", "#login", "//a[ @id = 'q' ]", "//*/*/a", "xpath=//b[@id='{u}']",
   "xpath=", "{u}", "{}"}

\* [best, ...alternates].join('|||')
RECURSIVE JoinSegments(_)
JoinSegments(segments) ==
  IF Len(segments) = 1 THEN Head(segments)
  ELSE Head(segments) \o "|||" \o JoinSegments(Tail(segments))

NotFound == [calls |-> 0, requests |-> << >>, result |-> NoResult]

InitProvider ==
  /\ EngineInit({1}, {EmptyMap}, {0})
  /\ file = NoFile
  /\ cache = NoCache
  /\ input \in [segments : UNION {[1..n -> ProviderSegments] : n \in 1..MaxParts},
                requestTemplate : BOOLEAN]
  /\ output = NotFound

\* find(domSnippet, description, url, requestTemplate): one generateLocator
\* request, which is given requestTemplate, and the result built from its
\* response.selector
Find ==
  /\ output.calls = 0
  /\ output' = [calls |-> 1,
                requests |-> Append(output.requests, input.requestTemplate),
                result |-> ProviderFind(JoinSegments(input.segments))]
  /\ UNCHANGED << input, file, cache, engineVars >>

SpecProvider == InitProvider /\ [][Find]_vars

(***************************************************************************)
(* OpenAIClient.generateLocator on its own (src/src/ai/llmClient.ts)       *)
(***************************************************************************)
LowerAlphabet == "abcdefghijklmnopqrstuvwxyz"

UpperAlphabet == "ABCDEFGHIJKLMNOPQRSTUVWXYZ"

\* description.toLowerCase() (the ASCII part)
RECURSIVE ToLowerCase(_)
ToLowerCase(s) ==
  IF s = "" THEN ""
  ELSE (IF \E i \in 1..Len(UpperAlphabet) : Ch(UpperAlphabet, i) = Head(s)
        THEN Ch(LowerAlphabet, CHOOSE i \in 1..Len(UpperAlphabet) :
                                 Ch(UpperAlphabet, i) = Head(s))
        ELSE Ch(s, 1)) \o ToLowerCase(Tail(s))

\* the place of the next double quote of s from i on, 0 when there is none
NextQuote(s, i) ==
  IF \E j \in i..Len(s) : Ch(s, j) = "\""
  THEN CHOOSE j \in i..Len(s) : Ch(s, j) = "\"" /\ \A k \in i..(j - 1) : Ch(s, k) # "\""
  ELSE 0

\* description.match(/"([^"]+)"/): the places of the quotes of the first
\* match, << >> when there is none
QuotedMatch(s) ==
  LET starts == {i \in 1..Len(s) : Ch(s, i) = "\"" /\ NextQuote(s, i + 1) > i + 1}
  IN  IF starts = {} THEN << >>
      ELSE LET i == CHOOSE x \in starts : \A y \in starts : x <= y
           IN  << i, NextQuote(s, i + 1) >>

\* Array.from(new Set(selectors))
RECURSIVE Unique(_, _)
Unique(selectors, seen) ==
  IF selectors = << >> THEN << >>
  ELSE IF Head(selectors) \in seen THEN Unique(Tail(selectors), seen)
  ELSE << Head(selectors) >> \o Unique(Tail(selectors), seen \cup {Head(selectors)})

generateFallbackSelectors(description) ==
  LET desc        == ToLowerCase(description)
      quotedMatch == QuotedMatch(description)
      searchText  == IF quotedMatch # << >>
                     THEN SubSeq(description, quotedMatch[1] + 1, quotedMatch[2] - 1)
                     ELSE description
      escapedText == ReplaceAll(searchText, "'", "\\'")
  IN  Unique(
        << "//*[contains(normalize-space(.), '" \o escapedText \o "')]",
           "//*[normalize-space(.)='" \o escapedText \o "']" >>
        \o (IF Includes(desc, "button") \/ Includes(desc, "btn")
            THEN << "//button[contains(normalize-space(.), '" \o escapedText \o "')]",
                    "//*[@role='button'][contains(normalize-space(.), '"
                       \o escapedText \o "')]" >>
            ELSE << >>)
        \o (IF Includes(desc, "link")
            THEN << "//a[contains(normalize-space(.), '" \o escapedText \o "')]" >>
            ELSE << >>)
        \o (IF Includes(desc, "input") \/ Includes(desc, "field")
            THEN << "//input[@placeholder='" \o escapedText \o "']",
                    "//label[contains(., '" \o escapedText \o "')]//following-sibling::input" >>
            ELSE << >>)
        \o (IF /\ searchText # ""
               /\ \A i \in 1..Len(searchText) : Ch(searchText, i) \in WordChars \cup {"-"}
            THEN << "#" \o searchText,
                    "[data-testid=\"" \o searchText \o "\"]",
                    "//*[@id='" \o searchText \o "']" >>
            ELSE << >>),
        {})

Fence == Backtick \o Backtick \o Backtick

\* rawContent.replace(/```json\n?/g, '').replace(/```\n?/g, '').trim()
Cleaned(rawContent) ==
  Trim(ReplaceAll(ReplaceAll(ReplaceAll(ReplaceAll(rawContent,
         Fence \o "json\n", ""), Fence \o "json", ""), Fence \o "\n", ""), Fence, ""))

\* JSON.parse(cleaned) of an object with best and alternates: ok is FALSE
\* where JSON.parse throws
ParseAnswer(cleaned) ==
  Only({(IF r.ok /\ Ws(cleaned, r.at) = Len(cleaned) + 1
         THEN [ok |-> TRUE, val |-> r.val]
         ELSE [ok |-> FALSE, val |-> NoResult]) : r \in {ParseResult(cleaned, Ws(cleaned, 1))}})

\* the try block from the answer of axios.post on: the content is read as
\* JSON, and is itself the selector when it is no JSON or has no best
Answered(content) ==
  LET rawContent == Trim(content)
      parsed     == ParseAnswer(Cleaned(rawContent))
  IN  IF parsed.ok /\ parsed.val.best # ""
      THEN IF Len(parsed.val.alternates) > 0
           THEN JoinSegments(<< parsed.val.best >> \o parsed.val.alternates)
           ELSE parsed.val.best
      ELSE rawContent

\* the catch block: fallbacks.join('|||')
Caught(description) ==
  [raised |-> FALSE, selector |-> JoinSegments(generateFallbackSelectors(description))]

\* generateLocator for a request that is rejected, that is answered without
\* choices[0].message.content, or that is answered with content
generateLocator(description, outcome) ==
  IF outcome.kind \in {"rejected", "malformed"} THEN Caught(description)
  ELSE [raised |-> FALSE, selector |-> Answered(outcome.content)]

FallbackDescriptions ==
  {"login button", "Submit", "find text \"Powered by\" link", "o'k field", "edit {u}"}

\* what the backend's message.content holds: nothing, blanks, a bare selector,
\* JSON with best and alternates, with best alone, without best, with an empty
\* best, JSON in a code fence
Contents ==
  { "", " \n", "//button",
    "{\"best\": \"#login\", \"alternates\": [\"//button\", \"#x\"]}",
    "{\"best\": \"#login\"}",
    "{\"alternates\": [\"//a\"]}",
    "{\"best\": \"\", \"alternates\": [\"//a\"]}",
    Fence \o "json\n{\"best\": \"//a\", \"alternates\": []}\n" \o Fence }

RequestOutcomes ==
  {[kind |-> k, content |-> ""] : k \in {"rejected", "malformed"}}
  \cup {[kind |-> "answered", content |-> c] : c \in Contents}

NotGenerated == [calls |-> 0, raised |-> FALSE, selector |-> ""]

InitGenerate ==
  /\ EngineInit({1}, {EmptyMap}, {0})
  /\ file = NoFile
  /\ cache = NoCache
  /\ input \in [description : FallbackDescriptions, outcome : RequestOutcomes,
                requestTemplate : BOOLEAN]
  /\ output = NotGenerated

Generate ==
  /\ output.calls = 0
  /\ output' = [calls |-> 1,
                raised |-> generateLocator(input.description, input.outcome).raised,
                selector |-> generateLocator(input.description, input.outcome).selector]
  /\ UNCHANGED << input, file, cache, engineVars >>

SpecGenerate == InitGenerate /\ [][Generate]_vars

(***************************************************************************)
(* Concurrent callers, of whom one calls again after its call threw        *)
(***************************************************************************)
\* a caller catches the error of its call and calls aiLocator again, once:
\* the call's slot starts over
AiLocatorAgain(c, o) ==
  /\ UNCHANGED utilVars
  /\ pc[c] = "failed"
  /\ c \notin startedAfter[c]
  /\ opt' = [opt EXCEPT ![c] = [o EXCEPT !.variables = Merge(aiContext, o.variables)]]
  /\ pc' = [pc EXCEPT ![c] = "getUrl"]
  /\ startedAfter' = [startedAfter EXCEPT ![c] = Completed]
  /\ cold' = [cold EXCEPT ![c] =
                LET k == buildKey(url, templateForCache(opt'[c]))
                IN  k \notin DOMAIN store /\ k \notin DOMAIN selectorCache]
  /\ cacheKey' = [cacheKey EXCEPT ![c] = ""]
  /\ waitOn' = [waitOn EXCEPT ![c] = 0]
  /\ eng' = [eng EXCEPT ![c] = NoEngine]
  /\ result' = [result EXCEPT ![c] = ""]
  /\ backendCalls' = [backendCalls EXCEPT ![c] = 0]
  /\ accepted' = [accepted EXCEPT ![c] = {}]
  /\ UNCHANGED << page, url, aiContext, maxRetries, selectorCache, inflightSelectors,
                  store >>

NextAgain ==
  \/ Next
  \/ \E c \in Calls, o \in CallOptions : AiLocatorAgain(c, o)

SpecAgain == Init /\ [][NextAgain]_vars

(***************************************************************************)
(* One caller after the other while the browser navigates                  *)
(***************************************************************************)
\* what ctx.getUrl() and browser.getUrl() may answer
Urls == {StartUrl, "http://t/next"}

InitNavigate == InitWith(1..Len(Documents), StoredFiles, {0})

\* the browser navigates on from the page it started at: a later getUrl()
\* answers the new address
Navigate(u) ==
  /\ UNCHANGED utilVars
  /\ url = StartUrl
  /\ u # url
  /\ url' = u
  /\ UNCHANGED << page, aiContext, maxRetries, selectorCache, inflightSelectors, store,
                  pc, opt, cacheKey, waitOn, eng, result, backendCalls, accepted,
                  startedAfter, cold >>

NextNavigate ==
  \/ NextSeq
  \/ \E u \in Urls : Navigate(u)

SpecNavigate == InitNavigate /\ [][NextNavigate]_vars

(***************************************************************************)
(* AiLocatorService: the lifecycle hooks (src/src/service.ts)              *)
(***************************************************************************)
\* hooks the runner calls on one service instance
MaxHooks == 3

\* this.client, this.registered, the hooks called, the calls of
\* registerAiLocator that returned, and whether one of them replaced an
\* in-memory layer that held a selector
NoService ==
  [client |-> FALSE, registered |-> FALSE, hooks |-> 0, registrations |-> 0,
   replaced |-> FALSE]

InitService ==
  /\ EngineInit(1..Len(Documents), StoredFiles, {0})
  /\ file = NoFile
  /\ cache = NoCache
  /\ input = "service"
  /\ output = NoService

\* registerAiLocator(browser, options): a new LocatorCache read from the same
\* file, new selectorCache and inflightSelectors maps, and addCommand, which
\* puts the new closures in the place of the commands registered before
registerAiLocator ==
  /\ selectorCache' = EmptyMap
  /\ inflightSelectors' = EmptyMap
  /\ UNCHANGED << page, url, aiContext, maxRetries, store, pc, opt, cacheKey, waitOn,
                  eng, result, backendCalls, accepted, startedAfter, cold >>

\* The runner awaits a hook while no command of the test is under way
HookCalled ==
  /\ output.hooks < MaxHooks
  /\ \A c \in Calls : pc[c] \in {"idle", "done", "failed"}

\* before(capabilities, specs, browser) with options that name a provider and
\* its key: the client is created and the commands are registered
Before ==
  /\ HookCalled
  /\ registerAiLocator
  /\ output' = [output EXCEPT !.client = TRUE, !.hooks = @ + 1,
                              !.registrations = @ + 1,
                              !.replaced = @ \/ selectorCache # EmptyMap]
  /\ UNCHANGED << file, cache, input >>

\* if (this.registered) return
Registered == output.registered

\* tryRegisterCommands(hookName), with globalThis.browser set or not
tryRegisterCommands ==
  /\ HookCalled
  /\ \E global \in BOOLEAN :
       IF ~Registered /\ global /\ output.client
       THEN /\ registerAiLocator
            /\ output' = [output EXCEPT !.registered = TRUE, !.hooks = @ + 1,
                                        !.registrations = @ + 1,
                                        !.replaced = @ \/ selectorCache # EmptyMap]
       ELSE /\ output' = [output EXCEPT !.hooks = @ + 1]
            /\ UNCHANGED engineVars
  /\ UNCHANGED << file, cache, input >>

BeforeSuite == tryRegisterCommands

BeforeTest == tryRegisterCommands

\* the test calls browser.aiLocator, which exists once a registration returned
ServiceAiLocator(c, o) ==
  /\ output.registrations > 0
  /\ SeqAiLocator(c, o)

NextService ==
  \/ Before
  \/ BeforeSuite
  \/ BeforeTest
  \/ \E c \in Calls, o \in SeqCallOptions : ServiceAiLocator(c, o)
  \/ \E c \in Calls : ResolveSelector(c)
  \/ \E c \in Calls : GetPageSource(c)
  \/ \E c \in Calls : EngineUrl(c)
  \/ \E c \in Calls : VerifyCached(c)
  \/ \E c \in Calls : Capture(c)
  \/ \E c \in Calls, r \in Responses : Backend(c, r)
  \/ \E c \in Calls : VerifyPrimary(c)
  \/ \E c \in Calls : VerifyBest(c)
  \/ \E c \in Calls : VerifyAlt(c)

SpecService == InitService /\ [][NextService]_vars

(***************************************************************************)
(* Concurrent callers whose awaits all settle                              *)
(***************************************************************************)
InitLive == InitWith(1..Len(Documents), StoredFiles, 0..DefaultMaxRetries)

\* the next turn of call c: the await it is at settles (ctx.getUrl,
\* getPageSource, browser.getUrl, verifySelector, browser.execute,
\* aiProvider.find)
Step(c) ==
  \/ ResolveSelector(c)
  \/ GetPageSource(c)
  \/ EngineUrl(c)
  \/ VerifyCached(c)
  \/ Capture(c)
  \/ \E r \in Responses : Backend(c, r)
  \/ VerifyPrimary(c)
  \/ VerifyBest(c)
  \/ VerifyAlt(c)

\* what the callers ask for: one key, with and without alwaysAI
LiveCallOptions == {EditX, EditAlwaysAI}

NextLive ==
  \/ \E c \in Calls, o \in LiveCallOptions : AiLocator(c, o)
  \/ \E c \in Calls : Step(c)

\* every URL read, snapshot capture, oracle query and backend call returns
SpecLive == InitLive /\ [][NextLive]_vars /\ \A c \in Calls : WF_vars(Step(c))

(***************************************************************************)
(* Properties                                                              *)
(***************************************************************************)
Started == {c \in Calls : pc[c] # "idle"}

Settled(c) == pc[c] \in {"done", "failed"}

Resolving(c) == pc[c] \in FetchPcs

\* the cache key of a started call, known before its getUrl answers
KeyOf(c) == buildKey(url, templateForCache(opt[c]))

\* every started call with the key of c
SameKey(c) == {d \in Started : KeyOf(d) = KeyOf(c)}

RECURSIVE SumCalls(_)
SumCalls(S) ==
  IF S = {} THEN 0
  ELSE LET c == CHOOSE x \in S : TRUE
       IN  backendCalls[c] + SumCalls(S \ {c})

\* C1: for any key at most one engine resolution is in flight at any time,
\* and a call that awaits an in-flight promise awaits the resolution that is
\* pending for its own key.
AtMostOneResolutionPerKey ==
  /\ \A c, d \in Calls :
       (c # d /\ Resolving(c) /\ Resolving(d)) => cacheKey[c] # cacheKey[d]
  /\ \A c \in Calls :
       pc[c] = "awaitInflight" =>
         /\ waitOn[c] \in Calls \ {c}
         /\ Resolving(waitOn[c])
         /\ cacheKey[waitOn[c]] = cacheKey[c]

\* C1 happens: a call awaits the pending resolution of another call
CoalescedWhilePending ==
  \E c, d \in Calls :
    /\ Resolving(c)
    /\ pc[d] = "awaitInflight"
    /\ waitOn[d] = c
    /\ backendCalls[c] = 1

\* the calls of G all started before any of them completed
Concurrent(G) == \A c \in G : startedAfter[c] \cap G = {}

\* no cache layer held the key when the calls of G started
ColdStart(G) == \A c \in G : cold[c]

\* every resolution of G that asked the backend had its first primary
\* candidate verified
FirstPrimaryVerified(G) ==
  \A c \in G : backendCalls[c] > 0 => (backendCalls[c] = 1 /\ eng[c].via = "primary")

\* one backend invocation, and every caller of G holds its result with the
\* caller's own variables substituted
OneResultForAll(G) ==
  /\ SumCalls(G) = 1
  /\ \E o \in G :
       /\ backendCalls[o] = 1
       /\ \A c \in G :
            /\ pc[c] = "done"
            /\ result[c] = interpolateLocator(eng[o].res.best, opt[c].variables)

CoalescingPremise(G) ==
  /\ \A d \in G : Settled(d)
  /\ Concurrent(G)
  /\ ColdStart(G)
  /\ FirstPrimaryVerified(G)

\* C2 as stated: N concurrent calls with one key on an empty cache, the
\* first primary candidate verifying, cause exactly one backend invocation
\* and every caller receives that result with its own substitution.
ConcurrentCallsOneInvocation ==
  \A c \in Started :
    CoalescingPremise(SameKey(c)) => OneResultForAll(SameKey(c))

\* C2 for callers with alwaysAI = false: N concurrent calls with one key on
\* an empty cache, the first primary candidate verifying, cause exactly one
\* backend invocation and every caller receives that result with its own
\* substitution.
ConcurrentCachedCallsOneInvocation ==
  \A c \in Started :
    (CoalescingPremise(SameKey(c)) /\ \A d \in SameKey(c) : ~opt[d].alwaysAI)
       => OneResultForAll(SameKey(c))

\* C2 happens: two callers of one key with different values, one coalesced
\* onto the other's resolution, both returned
CoalescedWithOwnValues ==
  \E c, d \in Calls :
    /\ c # d
    /\ d \in SameKey(c)
    /\ CoalescingPremise(SameKey(c))
    /\ \A e \in SameKey(c) : ~opt[e].alwaysAI
    /\ waitOn[d] = c
    /\ backendCalls[c] = 1
    /\ opt[c].variables # opt[d].variables
    /\ result[c] # result[d]

\* C3 as stated: every selector returned with autoHeal enabled was accepted
\* by the oracle during that same call, in the form that is returned.
ReturnedSelectorVerifiedInCall ==
  \A c \in Calls :
    (pc[c] = "done" /\ opt[c].autoHeal) => result[c] \in accepted[c]

\* C4 as stated: with autoHeal = true and alwaysAI = false a call never
\* returns a selector that matches no node when it returns.
StaleSelectorNeverReturned ==
  [][\A c \in Calls :
       (pc[c] # "done" /\ pc'[c] = "done" /\ opt[c].autoHeal /\ ~opt[c].alwaysAI)
          => verifySelector(result'[c])]_vars

\* C5: a resolution never invokes the backend more than maxRetries + 1
\* times; one that found every candidate rejected invoked it exactly
\* maxRetries + 1 times and failed with the error that names the
\* description and that count.
RetryBound ==
  \A c \in Calls :
    /\ backendCalls[c] <= maxRetries + 1
    /\ (Settled(c) /\ backendCalls[c] > 0 /\ accepted[c] = {}) =>
         /\ pc[c] = "failed"
         /\ eng[c].via = "exhausted"
         /\ backendCalls[c] = maxRetries + 1
         /\ result[c] = ExhaustedError(descriptionForAI(opt[c]))
    /\ eng[c].via = "exhausted" =>
         (backendCalls[c] = maxRetries + 1 /\ accepted[c] = {})

\* C5 happens: with maxRetries = 2 a resolution failed after 3 invocations
ExhaustedAfterThree ==
  \E c \in Calls :
    /\ maxRetries = DefaultMaxRetries
    /\ pc[c] = "failed"
    /\ eng[c].via = "exhausted"
    /\ backendCalls[c] = DefaultMaxRetries + 1
    /\ result[c] = "Unable to resolve locator for \"login\" after 3 attempts"

\* C6 as stated: the snapshot given to the backend in attempt i was
\* captured during attempt i.
SnapshotOfItsAttempt ==
  \A c \in Calls : pc[c] = "backend" => eng[c].snapAt = eng[c].attempt

\* C7 as stated: a call with alwaysAI = true that returned a selector had
\* the backend invoked for it, by its own resolution or by the one it
\* awaited.
AlwaysAIInvokesBackend ==
  \A c \in Calls :
    (pc[c] = "done" /\ opt[c].alwaysAI) =>
       \/ backendCalls[c] >= 1
       \/ (waitOn[c] \in Calls /\ backendCalls[waitOn[c]] >= 1)

\* C8: with autoHeal = false and alwaysAI = false, when the oracle rejects
\* the substituted selector of the stored entry, the resolution returns that
\* entry, the call returns its selector, the backend is not invoked and the
\* persistent store stays as it is.
StaleReturnedWithoutHeal ==
  [][\A c \in Calls :
       (/\ pc[c] = "verifyCached"
        /\ pc'[c] # "verifyCached"
        /\ ~opt[c].autoHeal
        /\ ~opt[c].alwaysAI
        /\ ~verifySelector(ToVerify(eng[c].cur, eng[c].cur.best, opt[c].variables)))
       => /\ pc'[c] = "done"
          /\ eng'[c].res = eng[c].cur
          /\ store[eng[c].key] = eng[c].cur
          /\ result'[c] = interpolateLocator(eng[c].cur.best, opt[c].variables)
          /\ backendCalls'[c] = 0
          /\ store' = store]_vars

\* C8 happens: a call without autoHeal returned the stored selector the
\* oracle had rejected
StaleReturned ==
  \E c \in Calls :
    /\ pc[c] = "done"
    /\ ~opt[c].autoHeal
    /\ eng[c].via = "stale"
    /\ result[c] = "//b[@id='x']"
    /\ result[c] \notin Documents[page.doc].live

\* the calls of G were made one after the other
Sequential(G) == \A c, d \in G : c < d => c \in startedAfter[d]

\* the calls of G use strategy template for one templated description and
\* differ in nothing but the values of the variables
TemplateCalls(G) ==
  \A c, d \in G :
    /\ finalCacheStrategy(opt[c]) = "template"
    /\ hasVars(opt[c])
    /\ opt[c].description = opt[d].description
    /\ opt[c].cacheBy = opt[d].cacheBy
    /\ opt[c].alwaysAI = opt[d].alwaysAI
    /\ opt[c].autoHeal = opt[d].autoHeal

FirstOf(G) == CHOOSE c \in G : \A d \in G : c <= d

\* in the first call of G the backend returned a pattern with a placeholder
\* and it verified
PatternVerifiedFirst(G) ==
  /\ backendCalls[FirstOf(G)] = 1
  /\ eng[FirstOf(G)].via = "primary"
  /\ hasTemplateVariables(eng[FirstOf(G)].res.best)

\* one backend invocation in all, both layers keep the placeholder form, and
\* each call returned the pattern with its own values
TemplateEconomy(G) ==
  LET pattern == eng[FirstOf(G)].res.best
      key     == KeyOf(FirstOf(G))
  IN  /\ SumCalls(G) = 1
      /\ key \in DOMAIN store
      /\ store[key].best = pattern
      /\ key \in DOMAIN selectorCache
      /\ selectorCache[key] = pattern
      /\ \A c \in G :
           /\ pc[c] = "done"
           /\ result[c] = interpolateLocator(pattern, opt[c].variables)
      /\ \A c, d \in G :
           opt[c].variables # opt[d].variables => result[c] # result[d]

TemplatePremise(G) ==
  /\ \A d \in G : Settled(d)
  /\ Sequential(G)
  /\ TemplateCalls(G)
  /\ PatternVerifiedFirst(G)

\* C9 as stated: M sequential template calls that differ only in values
\* cause one backend invocation in all, the cached artifact keeps the
\* placeholder form and each call returns the pattern with its own values.
SequentialTemplateCallsOneInvocation ==
  \A c \in Started : TemplatePremise(SameKey(c)) => TemplateEconomy(SameKey(c))

\* C9 for calls with alwaysAI = false: M sequential template calls that
\* differ only in values cause one backend invocation in all, the cached
\* artifact keeps the placeholder form and each call returns the pattern
\* with its own values.
SequentialCachedTemplateCallsOneInvocation ==
  \A c \in Started :
    (TemplatePremise(SameKey(c)) /\ \A d \in SameKey(c) : ~opt[d].alwaysAI)
       => TemplateEconomy(SameKey(c))

\* C9 happens: every call was made after the one before it, for one
\* template with different values, and each returned its own selector
TemplateServedTwice ==
  \E c \in Calls :
    /\ SameKey(c) = Calls
    /\ TemplatePremise(Calls)
    /\ \A d \in Calls : ~opt[d].alwaysAI
    /\ \E d, e \in Calls : result[d] = "//b[@id='x']" /\ result[e] = "//b[@id='o\\'k']"

\* C10: the in-flight map holds a key exactly while a resolution for it is
\* pending, under the call that resolves it, whether that resolution ends
\* with a selector or an error; it is empty when no call is pending.
InflightExactlyWhilePending ==
  /\ DOMAIN inflightSelectors = {cacheKey[c] : c \in {d \in Calls : Resolving(d)}}
  /\ \A k \in DOMAIN inflightSelectors :
       Resolving(inflightSelectors[k]) /\ cacheKey[inflightSelectors[k]] = k
  /\ (\A c \in Calls : pc[c] = "idle" \/ Settled(c)) => DOMAIN inflightSelectors = {}

\* C10 happens: one resolution ended with a selector, another threw, and
\* no call is pending
ResolvedAndThrown ==
  \E c, d \in Calls :
    /\ pc[c] = "failed"
    /\ eng[c].via = "exhausted"
    /\ pc[d] = "done"
    /\ backendCalls[d] >= 1
    /\ \A e \in Calls : Settled(e)
    /\ DOMAIN inflightSelectors = {}

PrimaryAcceptedIsPersisted ==
  [][\A c \in Calls :
       (/\ pc[c] = "verifyPrimary"
        /\ pc'[c] # "verifyPrimary"
        /\ eng[c].cur.best # ""
        /\ verifySelector(ToVerify(eng[c].cur, eng[c].cur.best, opt[c].variables)))
       => /\ pc'[c] = "done"
          /\ eng'[c].res = eng[c].cur
          /\ eng'[c].via = "primary"
          /\ result'[c] = interpolateLocator(eng[c].cur.best, opt[c].variables)
          /\ accepted'[c] = accepted[c] \cup
                {ToVerify(eng[c].cur, eng[c].cur.best, opt[c].variables)}
          /\ eng[c].key = buildKey(url, descriptionForAI(opt[c]))
          /\ DOMAIN store' = DOMAIN store \cup {eng[c].key}
          /\ store'[eng[c].key] = eng[c].cur
          /\ \A k \in DOMAIN store \ {eng[c].key} : store'[k] = store[k]]_vars

\* C12 happens: a primary with an alternate was accepted and persisted
PrimaryPersisted ==
  \E c \in Calls :
    /\ pc[c] = "done"
    /\ eng[c].via = "primary"
    /\ eng[c].res = [best |-> "#login", alternates |-> << "//button" >>,
                     isTemplate |-> FALSE]
    /\ "http://t::login" \in DOMAIN store
    /\ store["http://t::login"] = eng[c].res
    /\ accepted[c] = {"#login"}

\* C13: when the oracle accepts the (substituted) selector of the entry
\* found in the persistent store, the resolution returns that entry as it
\* is stored, placeholders included, the call has made no backend
\* invocation, and the store is left as it was.
StoreHitReturnsEntryUntouched ==
  [][\A c \in Calls :
       (/\ pc[c] = "verifyCached"
        /\ pc'[c] # "verifyCached"
        /\ verifySelector(ToVerify(eng[c].cur, eng[c].cur.best, opt[c].variables)))
       => /\ pc'[c] = "done"
          /\ eng[c].key \in DOMAIN store
          /\ eng'[c].res = store[eng[c].key]
          /\ eng'[c].via = "cache"
          /\ backendCalls'[c] = 0
          /\ store' = store]_vars

\* C13 happens: a stored template served a call with its placeholder kept
StoreHitServed ==
  \E c \in Calls :
    /\ pc[c] = "done"
    /\ eng[c].via = "cache"
    /\ eng[c].res.best = "//b[@id='{u}']"
    /\ result[c] = "//b[@id='x']"
    /\ backendCalls[c] = 0

\* C14 as stated: once set(key, value) has returned, get(key) is value, the
\* file holds the whole map, and a store constructed on the file returns the
\* last value set for every key.
SetIsDurable ==
  cache.made =>
    \A k \in DOMAIN cache.lastSet :
      /\ Get(k) = << cache.lastSet[k] >>
      /\ file.exists
      /\ file.raw = JsonStringify(cache.store)
      /\ GetReloaded(k) = << cache.lastSet[k] >>

\* C15: constructing the store on an absent file or on one that does not
\* parse never raises and leaves an empty map: get is absent for every key
\* until a set, and each later set returns with get giving its value.
ConstructOnBadFileIsEmpty ==
  /\ ~cache.raised
  /\ cache.from \in {"absent", "corrupt"} =>
       /\ cache.made
       /\ \A k \in StoreKeys :
            Get(k) = IF k \in DOMAIN cache.lastSet
                     THEN << cache.lastSet[k] >> ELSE << >>

\* C15 happens: a store constructed on a file cut short, then set for every key
SetAfterCorruptLoad ==
  /\ cache.made
  /\ cache.from = "corrupt"
  /\ DOMAIN cache.lastSet = StoreKeys
  /\ \A k \in StoreKeys : Get(k) # << >>

\* the elements of a list
Elements(seq) == {seq[i] : i \in 1..Len(seq)}

\* C16: no step removes a key of the persistent store, and a step that
\* creates or overwrites an entry is the step in which the oracle has just
\* accepted a candidate of the backend's answer (its primary or one of its
\* alternates), which becomes the non-empty best of that entry; every other
\* entry stays as it was.
StoreOnlyGrowsOnAcceptance ==
  [][/\ DOMAIN store \subseteq DOMAIN store'
     /\ store' # store =>
          \E c \in Calls :
            /\ pc[c] \in {"verifyPrimary", "verifyBest", "verifyAlt"}
            /\ pc'[c] = "done"
            /\ eng[c].key \in DOMAIN store'
            /\ \A k \in DOMAIN store \ {eng[c].key} : store'[k] = store[k]
            /\ DOMAIN store' = DOMAIN store \cup {eng[c].key}
            /\ LET v == store'[eng[c].key]
               IN  /\ v.best # ""
                   /\ v.best \in {eng[c].cur.best} \cup Elements(eng[c].cur.alternates)
                   /\ verifySelector(ToVerify(v, v.best, opt[c].variables))
                   /\ ToVerify(v, v.best, opt[c].variables) \in accepted'[c]]_vars

\* C16 happens: the stored template went stale, was healed and overwritten
\* by an accepted alternate, next to an entry created for another key
EntryOverwrittenAfterHeal ==
  /\ DOMAIN store = {"http://t::edit {u}", "http://t::login"}
  /\ store["http://t::edit {u}"].best = "//button"

\* C17 as stated: optimize is idempotent, optimize(optimize(x)) =
\* optimize(x) for every path expression x, repeated wildcard and
\* any-descendant wrapper segments included.
OptimizeIdempotent ==
  output.calls = 2 => output.twice = output.once

\* the feature each piece of a candidate shows; the document-root path
\* /html/body/div[1] has a positional predicate too
FeaturesOf(F) ==
  {IF t = "test" THEN "testid"
   ELSE IF t = "role" THEN "aria"
   ELSE IF t \in {"following", "preceding"} THEN "sibling"
   ELSE t : t \in F}
  \cup (IF "absolute" \in F THEN {"positional"} ELSE {})

\* the listed bonus or penalty of a feature
ListedPoints(f) ==
  CASE f = "normalize"   -> 15
    [] f = "testid"      -> 30
    [] f = "aria"        -> 25
    [] f = "id"          -> 20
    [] f = "name"        -> 15
    [] f = "placeholder" -> 10
    [] f = "translate"   -> 10
    [] f = "leading"     -> 10
    [] f = "sibling"     -> 5
    [] f = "positional"  -> 0 - 20
    [] f = "deep"        -> 0 - 15
    [] f = "absolute"    -> 0 - 25
    [] f = "divs"        -> 0 - 15
    [] f = "generatedId" -> 0 - 20
    [] f = "hashClass"   -> 0 - 15
    [] f = "predicates"  -> 0 - 10

RECURSIVE SumPoints(_)
SumPoints(S) ==
  IF S = {} THEN 0
  ELSE LET f == CHOOSE x \in S : TRUE IN ListedPoints(f) + SumPoints(S \ {f})

\* C18: score(candidate) is 50 plus the bonus of every listed positive
\* feature the candidate shows minus the penalty of every listed negative
\* one, brought into 0..100; it is 0 for the empty candidate, 75 for
\* //button[normalize-space(.)='Login'] and 35 for //div/div/div/div.
ScoreIsClampedSum ==
  output.calls = 1 =>
    /\ input.text # "" =>
         LET sum == 50 + SumPoints(FeaturesOf(input.tokens))
         IN  output.score = IF sum < 0 THEN 0 ELSE IF sum > 100 THEN 100 ELSE sum
    /\ input.text = "" => output.score = 0
    /\ input.text = "//button[normalize-space(.)='Login']" => output.score = 75
    /\ input.text = "//div/div/div/div" => output.score = 35

\* C18 happens: a candidate whose bonuses sum past 100 was scored 100
ScoredAtCeiling ==
  /\ output.calls = 1
  /\ input.tokens = {"testid", "aria", "id"}
  /\ output.score = 100

\* C19: selectBest returns absent when the list is empty or holds no valid
\* path expression; otherwise it returns a valid candidate that no valid
\* candidate outscores, the first listed of those with that score; an
\* invalid candidate is never returned.
SelectBestIsFirstOfMaximal ==
  output.calls = 1 =>
    LET valid == {i \in 1..Len(input) : isValidXPath(input[i])}
        tops  == {i \in valid :
                    \A j \in valid : scoreXPath(input[i]) >= scoreXPath(input[j])}
    IN  /\ valid = {} => output.best = ""
        /\ valid # {} =>
             /\ output.best # ""
             /\ isValidXPath(output.best)
             /\ \E i \in tops : /\ output.best = input[i]
                                /\ \A j \in tops : i <= j

\* C19 happens: of two valid candidates of equal score, listed behind an
\* invalid one, the first was returned
FirstOfTiedReturned ==
  /\ output.calls = 1
  /\ input = << "#login", "//c[@id='y']", "//a[@id='x']" >>
  /\ output.best = "//c[@id='y']"

\* what the claim says a piece of the template becomes
RECURSIVE Substituted(_, _)
Substituted(pieces, variables) ==
  IF pieces = << >> THEN ""
  ELSE LET p == Head(pieces)
       IN  (IF /\ p.kind = "placeholder"
               /\ p.text \in DOMAIN variables
               /\ variables[p.text].t \notin {"null", "undefined"}
            THEN JsString(variables[p.text])
            ELSE Written(p))
           \o Substituted(Tail(pieces), variables)

\* C20: substitute returns the text as it is when it holds no placeholder;
\* otherwise every {name} with a defined value is replaced by that value as
\* a string, and every {name} whose value is missing, undefined or null
\* stays as written; substitute returns for every input.
SubstituteReplacesDefinedOnly ==
  output.calls = 1 =>
    /\ output.text = Substituted(input.pieces, input.variables)
    /\ ~hasTemplateVariables(TemplateOf(input.pieces)) =>
         output.text = TemplateOf(input.pieces)

\* C20 happens: one placeholder replaced by a number, one with a null value
\* and a lone brace left as written
SubstitutedAndKept ==
  /\ output.calls = 1
  /\ input.pieces = << [kind |-> "literal", text |-> " {"],
                       [kind |-> "placeholder", text |-> "u"],
                       [kind |-> "placeholder", text |-> "v"] >>
  /\ input.variables = [n \in {"u", "v"} |->
                          IF n = "u" THEN JsValue("number", "", 3)
                          ELSE JsValue("null", "", 0)]
  /\ output.text = " {3{v}"

\* whether a placeholder is among the pieces of a template
HasPlaceholderPiece(pieces) ==
  \E i \in 1..Len(pieces) : pieces[i].kind = "placeholder"

\* C21: the effective strategy is template iff template was requested, or
\* smart was requested and the raw description holds a placeholder, and is
\* resolved otherwise; the key text and the description for the backend are
\* the raw description under template and the substituted one under
\* resolved; a pattern is requested iff the strategy is template and the
\* description holds a placeholder.
StrategyDerivedAsListed ==
  output.calls = 1 =>
    LET template == \/ input.cacheBy = "template"
                    \/ (input.cacheBy = "smart" /\ HasPlaceholderPiece(input.pieces))
        text     == IF template THEN TemplateOf(input.pieces)
                    ELSE Substituted(input.pieces, input.variables)
    IN  /\ output.strategy = IF template THEN "template" ELSE "resolved"
        /\ output.keyText = text
        /\ output.forAI = text
        /\ output.pattern = (template /\ HasPlaceholderPiece(input.pieces))

\* C21 happens: smart on a description with a placeholder keys by the template
SmartKeyedByTemplate ==
  /\ output.calls = 1
  /\ input.cacheBy = "smart"
  /\ input.pieces = << [kind |-> "literal", text |-> "ab "],
                       [kind |-> "placeholder", text |-> "u"] >>
  /\ "u" \in DOMAIN input.variables
  /\ input.variables["u"] = JsValue("string", "x", 0)
  /\ output = [calls |-> 1, strategy |-> "template", keyText |-> "ab {u}",
               forAI |-> "ab {u}", pattern |-> TRUE]

CallSubstitutesItsOwnValues ==
  /\ [][\A c \in Calls :
          pc[c] = "idle" /\ pc'[c] # "idle" => opt'[c].variables = [u |-> input]]_vars
  /\ [](\A c \in Calls :
          pc[c] = "done" =>
            LET pattern == store[cacheKey[c]].best
            IN  /\ result[c] = Interpolated(pattern, opt[c].variables)
                /\ \A name \in UserNames :
                     /\ hasTemplateVariables(pattern)
                     /\ name # opt[c].variables["u"]
                     => result[c] # Interpolated(pattern, [u |-> name]))

\* C23 happens: the first call resolved the pattern for x; the second, made
\* after currentUser changed, found it in the in-memory layer and returned it
\* with o'k; a third caller would now obtain x again
MemoryHitWithNewValue ==
  /\ pc[1] = "done"
  /\ pc[2] = "done"
  /\ eng[1].via # "none"
  /\ eng[2] = NoEngine
  /\ waitOn[2] = 0
  /\ selectorCache[cacheKey[2]] = "//b[@id='{u}']"
  /\ result[1] = "//b[@id='x']"
  /\ result[2] = "//b[@id='o\\'k']"
  /\ input = "x"

\* The trace of the one call of SpecAttempt: the places of the backend's
\* answers, and the oracle's lookups that follow the answer at i
TraceBackends == {i \in 1..Len(output) : output[i].kind = "backend"}

AttemptEnd(i) ==
  CHOOSE j \in (i + 1)..(Len(output) + 1) :
    /\ j = Len(output) + 1 \/ output[j].kind = "backend"
    /\ \A k \in (i + 1)..(j - 1) : output[k].kind = "oracle"

Lookups(i) == SubSeq(output, i + 1, AttemptEnd(i) - 1)

\* the lookup of a candidate as the call would verify it: none when the
\* selector to verify is empty
LookupOf(res, candidate) ==
  IF ToVerify(res, candidate, opt[1].variables) = "" THEN << >>
  ELSE << ToVerify(res, candidate, opt[1].variables) >>

PrimaryLookup(res) == IF res.best = "" THEN << >> ELSE LookupOf(res, res.best)

AllPaths(alternates) == \A k \in 1..Len(alternates) : isXPath(alternates[k])

RankedLookup(res) ==
  IF /\ res.alternates # << >>
     /\ AllPaths(res.alternates)
     /\ selectBestXPath(res.alternates) # ""
  THEN LookupOf(res, selectBestXPath(res.alternates))
  ELSE << >>

RECURSIVE InOrderLookups(_, _)
InOrderLookups(res, alternates) ==
  IF alternates = << >> THEN << >>
  ELSE LookupOf(res, Head(alternates)) \o InOrderLookups(res, Tail(alternates))

\* the lookups made are the first ones of those expected, each after a failure
StartsAs(lookups, expected) ==
  /\ Len(lookups) <= Len(expected)
  /\ \A k \in 1..Len(lookups) : lookups[k].selector = expected[k]
  /\ \A k \in 2..Len(lookups) : ~lookups[k - 1].ok

\* C24: after each answer of the backend the oracle is asked for the primary
\* first and then, only when every alternate is a path expression, for the
\* alternate selectBestXPath ranks first; when that one is accepted the result
\* returned and persisted has it as best, the other alternates of the list as
\* alternates and the isTemplate of the answer; with an alternate that is not
\* a path expression the lookup after the primary is the first alternate of
\* the list, not a ranked one.
RankedAlternateAfterPrimary ==
  \A i \in TraceBackends :
    LET res     == output[i].res
        lookups == Lookups(i)
        first   == PrimaryLookup(res) \o RankedLookup(res)
        ranked  == selectBestXPath(res.alternates)
    IN  /\ StartsAs(lookups, first \o InOrderLookups(res, res.alternates))
        /\ /\ RankedLookup(res) # << >>
           /\ Len(lookups) = Len(first)
           /\ lookups[Len(lookups)].ok
           => /\ pc[1] = "done"
              /\ eng[1].res = [best |-> ranked,
                               alternates |-> SelectSeq(res.alternates,
                                                        LAMBDA a : a # ranked),
                               isTemplate |-> res.isTemplate]
              /\ store[eng[1].key] = eng[1].res
        /\ ~AllPaths(res.alternates) => RankedLookup(res) = << >>

\* C24 happens: the primary failed, the alternate ranked first, the second of
\* the list, was accepted and persisted without the first
RankedSecondAccepted ==
  /\ pc[1] = "done"
  /\ Len(output) = 3
  /\ output[1].res.alternates = << "//div/b", "//b[@id='{u}']" >>
  /\ output[2].selector = "//i[@id='x']"
  /\ ~output[2].ok
  /\ output[3].selector = "//b[@id='x']"
  /\ output[3].ok
  /\ store[eng[1].key] =
       [best |-> "//b[@id='{u}']", alternates |-> << "//div/b" >>, isTemplate |-> TRUE]
  /\ result[1] = "//b[@id='x']"

\* the alternate whose lookup is the m-th of those made in list order
RECURSIVE LookedUp(_, _, _)
LookedUp(res, alternates, m) ==
  IF LookupOf(res, Head(alternates)) = << >> THEN LookedUp(res, Tail(alternates), m)
  ELSE IF m = 1 THEN Head(alternates)
  ELSE LookedUp(res, Tail(alternates), m - 1)

\* C25: after the primary and, when there was one, the ranked alternate have
\* failed, the oracle is asked for the alternates in the order of the list,
\* each with the caller's variables substituted when the answer is a pattern;
\* the first one accepted is returned and persisted as best with the whole
\* list as alternates and nothing is looked up after it; the backend is asked
\* again only after every alternate of the list has failed.
AlternatesInListOrder ==
  \A i \in TraceBackends :
    LET res     == output[i].res
        first   == Len(PrimaryLookup(res) \o RankedLookup(res))
        lookups == Lookups(i)
        inOrder == SubSeq(lookups, first + 1, Len(lookups))
        listed  == InOrderLookups(res, res.alternates)
    IN  /\ Len(inOrder) <= Len(listed)
        /\ \A k \in 1..Len(inOrder) :
             /\ inOrder[k].selector =
                  IF res.isTemplate
                  THEN interpolateLocator(LookedUp(res, res.alternates, k),
                                          opt[1].variables)
                  ELSE LookedUp(res, res.alternates, k)
             /\ \A j \in 1..(first + k - 1) : ~lookups[j].ok
        /\ \A k \in 1..Len(lookups) : lookups[k].ok => i + k = Len(output)
        /\ inOrder # << >> /\ inOrder[Len(inOrder)].ok
           => /\ pc[1] = "done"
              /\ eng[1].res = [best |-> LookedUp(res, res.alternates, Len(inOrder)),
                               alternates |-> res.alternates,
                               isTemplate |-> res.isTemplate]
              /\ store[eng[1].key] = eng[1].res
        /\ AttemptEnd(i) <= Len(output)
           => /\ Len(inOrder) = Len(listed)
              /\ \A k \in 1..Len(lookups) : ~lookups[k].ok

\* C25 happens: the first alternate is no path expression, so nothing was
\* ranked; the substituted primary and first alternate failed, and the second,
\* looked up with the caller's x, was accepted and persisted with the whole list
SecondListedPatternAccepted ==
  /\ pc[1] = "done"
  /\ opt[1].variables = [u |-> "x"]
  /\ Len(output) = 4
  /\ output[1].kind = "backend"
  /\ output[2].selector = "x"
  /\ output[3].selector = "x"
  /\ output[4].selector = "//b[@id='x']"
  /\ output[4].ok
  /\ store[eng[1].key] =
       [best |-> "//b[@id='{u}']", alternates |-> << "{u}", "//b[@id='{u}']" >>,
        isTemplate |-> TRUE]
  /\ result[1] = "//b[@id='x']"

\* C26: the oracle is never asked for the empty selector. A primary, an
\* alternate or a cached selector that is empty when it is to be verified
\* fails without a lookup, and only for itself: after an empty cached selector
\* the backend is asked, and an attempt that ended without an accepted
\* candidate has looked up every alternate that was not empty.
EmptySelectorNeverLookedUp ==
  /\ \A k \in 1..Len(output) : output[k].kind = "oracle" => output[k].selector # ""
  /\ /\ pc[1] = "backend"
     /\ eng[1].attempt = 0
     /\ eng[1].key \in DOMAIN store
     /\ ToVerify(store[eng[1].key], store[eng[1].key].best, opt[1].variables) = ""
     => output = << >>
  /\ \A i \in TraceBackends :
       LET res     == output[i].res
           lookups == Lookups(i)
       IN  /\ res.best = "" \/ ToVerify(res, res.best, opt[1].variables) = ""
              => \A k \in 1..Len(lookups) :
                   lookups[k].selector \in
                     {ToVerify(res, res.alternates[j], opt[1].variables) :
                        j \in 1..Len(res.alternates)}
           /\ AttemptEnd(i) <= Len(output) \/ pc[1] = "failed"
              => \A j \in 1..Len(res.alternates) :
                   LET alt == ToVerify(res, res.alternates[j], opt[1].variables)
                   IN  alt # "" => \E k \in 1..Len(lookups) : lookups[k].selector = alt

\* C26 happens: with u empty the primary and the first alternate were empty
\* when they were to be verified; the only lookup of the attempt is the one of
\* the second alternate
EmptyCandidatesSkipped ==
  /\ opt[1].variables = [u |-> ""]
  /\ Len(output) = 3
  /\ output[1].kind = "backend"
  /\ output[1].res.best = "{u}"
  /\ output[1].res.alternates = << "{u}", "//b[@id='{u}']" >>
  /\ output[2].selector = "//b[@id='']"
  /\ output[3].kind = "backend"

\* a segment as the adapter is to hand it on: normalized, then optimized, when
\* it is a path expression that isValidXPath takes, and as it is otherwise
HandedOn(segment) ==
  IF isXPath(segment) /\ isValidXPath(segment)
  THEN optimizeXPath(normalizeXPath(segment))
  ELSE segment

RECURSIVE HandedOnAll(_)
HandedOnAll(segments) ==
  IF segments = << >> THEN << >>
  ELSE << HandedOn(Head(segments)) >> \o HandedOnAll(Tail(segments))

\* C27 as stated: the first segment is the primary and every further segment
\* is an alternate, in order, each normalized then optimized when it is a
\* valid path expression and unmodified otherwise; none is dropped.
EverySegmentHandedOn ==
  output.calls = 1 =>
    /\ output.result.best = HandedOn(Head(input.segments))
    /\ output.result.alternates = HandedOnAll(Tail(input.segments))

\* C27 amended: as above, except that the empty segments after the first are
\* dropped from the alternates; an empty first segment stays as the primary.
NonEmptySegmentsHandedOn ==
  output.calls = 1 =>
    /\ output.result.best = HandedOn(Head(input.segments))
    /\ output.result.alternates =
         HandedOnAll(SelectSeq(Tail(input.segments), LAMBDA segment : segment # ""))

\* C27 happens: three segments, the one in the middle empty; the result has
\* the rewritten first as primary and the rewritten third as only alternate
EmptyMiddleSegmentDropped ==
  /\ output.calls = 1
  /\ input.segments = << "//a[ @id = 'q' ]", "", "//*/*/a" >>
  /\ output.result.best = "//a[ @id='q' ]"
  /\ output.result.alternates = << "//*/a" >>

\* C28: the adapter's result is a pattern exactly when its processed primary
\* holds a {word} placeholder, whatever requestTemplate is and whatever the
\* alternates hold, and a call of find makes one request to the backend.
IsTemplateFromPrimaryAlone ==
  output.calls = 1 =>
    /\ output.result.isTemplate =
         (\E i \in 1..Len(output.result.best) :
            /\ Ch(output.result.best, i) = "{"
            /\ \E j \in (i + 2)..Len(output.result.best) :
                 /\ Ch(output.result.best, j) = "}"
                 /\ \A k \in (i + 1)..(j - 1) : Ch(output.result.best, k) \in WordChars)
    /\ Len(output.requests) = 1

\* C28 happens: requestTemplate was set and an alternate holds a placeholder,
\* the primary holds none and the result is no pattern
PatternAlternateIsNoTemplate ==
  /\ output.calls = 1
  /\ input.requestTemplate
  /\ input.segments = << "#login", "xpath=//b[@id='{u}']" >>
  /\ output.result = [best |-> "#login", alternates |-> << "//b[@id='{u}']" >>,
                      isTemplate |-> FALSE]
  /\ output.requests = << TRUE >>

\* the request failed, or its answer could not be read: no content in it, or
\* content that JSON.parse rejects
NotParsed(outcome) ==
  \/ outcome.kind \in {"rejected", "malformed"}
  \/ ~ParseAnswer(Cleaned(Trim(outcome.content))).ok

\* C29 as stated: when the request fails or its answer cannot be parsed,
\* generateLocator does not raise and returns a delimited list that holds at
\* least one selector (text other than the delimiter's bars), so that the
\* engine has a candidate to verify.
FailureYieldsFallbackList ==
  output.calls = 1 /\ NotParsed(input.outcome) =>
    /\ ~output.raised
    /\ \E i \in 1..Len(output.selector) : Ch(output.selector, i) # "|"


\* the key a call looks up in the in-memory layer
LookupKey(c) == buildKey(url, templateForCache(opt[c]))

FailedResolutionWritesNothing ==
  [][/\ \A c \in Calls :
          pc[c] \in FetchPcs /\ pc'[c] = "failed" =>
            /\ store' = store
            /\ selectorCache' = selectorCache
            /\ cacheKey[c] \in DOMAIN inflightSelectors
            /\ inflightSelectors[cacheKey[c]] = c
            /\ inflightSelectors' = Remove(inflightSelectors, cacheKey[c])
     /\ store' # store \/ selectorCache' # selectorCache =>
          \E c \in Calls : pc[c] \in FetchPcs /\ pc'[c] = "done"
     /\ \A c \in Calls : pc[c] = "failed" => pc'[c] = "failed"]_vars

\* C31 happens: after a call that filled both layers for one key, a call for
\* another key has failed on an entry the file held with an empty best; both
\* layers hold what the first call left and nothing is in flight
FailedOnForeignEntry ==
  /\ pc[1] = "done"
  /\ pc[2] = "failed"
  /\ opt[1] = Login
  /\ opt[2] = EditNoHeal
  /\ result[2] = NoSelectorError("edit {u}")
  /\ DOMAIN selectorCache = {"http://t::login"}
  /\ DOMAIN store = {"http://t::login", "http://t::edit {u}"}
  /\ store["http://t::edit {u}"].best = ""
  /\ inflightSelectors = EmptyMap

\* C31 happens as well: every attempt of the one resolution was used up
FailedExhausted ==
  /\ pc[1] = "failed"
  /\ eng[1].via = "exhausted"
  /\ backendCalls[1] = DefaultMaxRetries + 1
  /\ selectorCache = EmptyMap
  /\ inflightSelectors = EmptyMap


\* The step in which the resolution of call c fails while others await it
CoalescedFailure(c) ==
  /\ pc[c] \in FetchPcs
  /\ pc'[c] = "failed"
  /\ \E d \in Calls : pc[d] = "awaitInflight" /\ waitOn[d] = c

\* Call c is the first to look the key up after a resolution of its own that
\* call d awaited failed: d is still where that failure left it, c has called
\* again and looked the same key up, and no third call has, nor has one
\* called again
FirstAfterCoalescedFailure(c, d) ==
  /\ c # d
  /\ pc[d] = "failed"
  /\ waitOn[d] = c
  /\ c \in startedAfter[c]
  /\ cacheKey[c] = cacheKey[d]
  /\ \A e \in Calls \ {c, d} : cacheKey[e] # cacheKey[d] /\ e \notin startedAfter[e]

\* the failure reaches every awaiting caller as the same error and writes no
\* in-memory entry, and the first call afterwards runs a resolution of its own
FailureSharedAndNotKept ==
  /\ [][\A c \in Calls : CoalescedFailure(c) =>
          /\ \A d \in Calls : pc[d] = "awaitInflight" /\ waitOn[d] = c =>
                /\ pc'[d] = "failed"
                /\ result'[d] = result'[c]
          /\ selectorCache' = selectorCache
          /\ cacheKey[c] \notin DOMAIN inflightSelectors']_vars
  /\ [](\A c, d \in Calls : FirstAfterCoalescedFailure(c, d) =>
          /\ waitOn[c] = 0
          /\ pc[c] \in FetchPcs \cup {"done", "failed"}
          /\ pc[c] \in {"done", "failed"} => eng[c].via # "none")

\* C32 as stated: if a coalesced resolution fails, every caller awaiting it
\* fails with the same error, no in-memory entry is written for the key, and
\* the first call for that key made after the failure starts a new
\* resolution with its own backend round.
CoalescedFailureThenBackendRound ==
  /\ FailureSharedAndNotKept
  /\ [](\A c, d \in Calls :
          FirstAfterCoalescedFailure(c, d) /\ pc[c] \in {"done", "failed"} =>
            backendCalls[c] >= 1)

\* C32: if a coalesced resolution fails, every caller awaiting it fails with
\* the same error, no in-memory entry is written and the in-flight entry is
\* gone, and the first call for that key made after the failure starts a new
\* resolution, which makes a backend round of its own unless the engine
\* returns the entry the persistent store holds for the key.
CoalescedFailureThenNewResolution ==
  /\ FailureSharedAndNotKept
  /\ [](\A c, d \in Calls :
          FirstAfterCoalescedFailure(c, d) /\ pc[c] \in {"done", "failed"} =>
            backendCalls[c] >= 1 \/ eng[c].via \in {"cache", "stale"})

\* C32 happens: call 2 failed with the error of call 1, which it awaited;
\* call 1 was made again for the key and resolved it with a backend round
ResolvedAfterCoalescedFailure ==
  /\ FirstAfterCoalescedFailure(1, 2)
  /\ result[2] = ExhaustedError("edit {u}")
  /\ pc[1] = "done"
  /\ backendCalls[1] = 1
  /\ eng[1].via = "primary"
  /\ cacheKey[1] \in DOMAIN selectorCache


\* C33 as stated: for overlapping withAiContext calls, of which one ended
\* before a call entered after it, once all of them have completed the
\* context equals its value before the first one was entered: no scoped
\* variable outlives its scope.
OverlappingScopesLeaveNoTrace ==
  output.scopes = << >> /\ ~output.lifo => aiContext = output.outside


\* C34 as stated: an alwaysAI call never reads or writes the in-memory layer
\* and never reads the persistent store, but when it succeeds it overwrites
\* the persistent-store entry for its key with the newly verified result: the
\* step in which an alwaysAI call succeeds makes the store's entry for the
\* call's key the result the engine returns in that step, reached through the
\* backend and accepted by the oracle in this call, of which the call returns
\* its substitution; a resolution the call ran itself leaves the in-memory
\* layer as it is.
AlwaysAIOverwritesStore ==
  [][\A c \in Calls :
       opt[c].alwaysAI /\ pc[c] # "done" /\ pc'[c] = "done" =>
         /\ pc[c] \in FetchPcs => selectorCache' = selectorCache
         /\ eng'[c].via \in {"primary", "ranked", "alternate"}
         /\ LookupKey(c) \in DOMAIN store'
         /\ store'[LookupKey(c)] = eng'[c].res
         /\ ToVerify(eng'[c].res, eng'[c].res.best, opt[c].variables) \in accepted'[c]
         /\ result'[c] = Interpolated(eng'[c].res.best, opt[c].variables)]_vars


\* C35 as stated: every entry the engine persists has isTemplate true iff its
\* best selector contains a placeholder, also when best is an alternate
\* promoted over the backend's primary; so a stored selector is substituted
\* before verification exactly when it contains placeholders.
PersistedFlagMatchesBest ==
  [][\A k \in DOMAIN store' :
       k \notin DOMAIN store \/ store'[k] # store[k] =>
         (store'[k].isTemplate <=> hasTemplateVariables(store'[k].best))]_vars


\* C36 as stated: for one resolution, the key under which its result is kept
\* in the in-memory and in-flight layers equals the key under which the
\* engine reads and writes the persistent store, even when the page URL
\* changes between the coordinator's URL read and the engine's.
OneKeyPerResolution ==
  \A c \in Calls : eng[c].key # "" => eng[c].key = cacheKey[c]


\* C37 as stated: across any sequence of the lifecycle hooks before,
\* beforeSuite and beforeTest on one service instance the aiLocator commands
\* are registered at most once, so that the in-memory layer and the in-flight
\* map created at registration are never replaced by new empty ones.
RegisteredAtMostOnce ==
  output.registrations <= 1 /\ ~output.replaced


\* C38: when every URL read, snapshot capture, oracle query and backend call
\* returns, every aiLocator call that was made eventually returns or throws;
\* no call makes more than maxRetries + 1 backend invocations; and the step in
\* which a resolution ends is the step in which every caller that awaits it
\* ends, in the same way.
EveryCallTerminates ==
  /\ \A c \in Calls : (pc[c] # "idle") ~> (pc[c] \in {"done", "failed"})
  /\ [](\A c \in Calls : backendCalls[c] <= maxRetries + 1)
  /\ [][\A c \in Calls :
          pc[c] \in FetchPcs /\ pc'[c] \in {"done", "failed"} =>
            \A d \in Calls :
              pc[d] = "awaitInflight" /\ waitOn[d] = c => pc'[d] = pc'[c]]_vars

\* C38 happens: a resolution used up its three attempts and threw, and so did
\* the call that awaited it
BothEndedAfterThreeAttempts ==
  /\ maxRetries = DefaultMaxRetries
  /\ pc = [c \in Calls |-> IF c <= 2 THEN "failed" ELSE pc[c]]
  /\ backendCalls[1] = DefaultMaxRetries + 1
  /\ waitOn[2] = 1
  /\ backendCalls[2] = 0
  /\ result[2] = result[1]

=============================================================================
